---- MODULE Spec2Model ----
(***************************************************************************)
(* A model of jouet-paiement: the per-account transaction state machine    *)
(* (depositor, withdrawer, disputer, resolver, backcharger, dispatched by  *)
(* the account transactor) and the per-client pipeline of the              *)
(* AsyncCsvStreamProcessor (parser, one bounded channel and one worker     *)
(* task per client, shutdown).                                             *)
(*                                                                         *)
(* The specifications of the module:                                       *)
(*   SpecAccount       one account, events applied one after another       *)
(*                     through the account transactor;                     *)
(*   Spec              the pipeline: process() reading records and sending *)
(*                     them to the workers, the workers applying them to   *)
(*                     the shared accounts map, and shutdown();            *)
(*   SpecWithAccounts  the pipeline over an accounts map that may already  *)
(*                     hold a locked account;                              *)
(*   SpecRecorded      the pipeline with the rows read kept, to compare it *)
(*                     with the sequential CsvStreamProcessor;             *)
(* and the variants of these defined next to them.                         *)
(***************************************************************************)
EXTENDS Integers, Sequences, FiniteSets, TLC

(***************************************************************************)
(* Bounds of the model.                                                    *)
(***************************************************************************)
\* Largest amount of an event (amounts are i64 in units of 1/10000).
MaxAmount == 2
\* Number of events applied to the account in SpecAccount.
MaxSteps == 5
\* Number of events applied to the account in SpecLifecycle.
MaxLifecycleSteps == 7
\* Number of input records process() reads in Spec and SpecWithAccounts.
MaxRecords == 4
\* Number of input records process() reads in FairSpec and SpecRecorded.
MaxShortRecords == 3
\* Number of further records process() reads in a run that starts with a
\* full channel (see Backlog).
MaxBacklogRecords == 2
\* Capacity of a client's channel: channel::<Transaction>(256)
\* (async_csv_stream_processor.rs:78).
InboxCapacity == 256

\* ClientId (u16) and TransactionId (u32) values used by the model.
Clients == {1, 2}
TxIds == {1, 2}
\* Amounts of the events of SpecAccount: the parser accepts negative
\* decimals, so a negative amount is an input the transactors can see.
Amounts == (-1)..MaxAmount
\* Amounts of the records of Spec (in whole units: "1.0", "2.0").
StreamAmounts == {1, 2}
\* Transaction ids of the records of Spec.
StreamTxIds == {1}

NoAmount == 0

VARIABLES
    \* ---- SpecAccount ----
    account,          \* the Account the events are applied to
    last,             \* the last event, its result and the account before it
    steps,            \* number of events applied so far
    \* ---- Spec ----
    pc,               \* process(): "read", "send" (inside sender.send), "done"
    nread,            \* number of records process() has read
    pending,          \* the transaction process() is sending
    processResult,    \* what process() returned: "none" until it returns
    senders_and_handles, \* keys of the DashMap client -> (Sender, JoinHandle)
    sender,           \* per client: "none", "alive", "dropped"
    inbox,            \* per client: the channel's buffered transactions
    receiver,         \* per client: "none", "open", "closed" (receiver dropped)
    worker,           \* per client: the worker task ("none", "running", "done") and its result
    received,         \* per client: the transaction recv() has returned to the worker
                      \* and the worker has not yet handed to the processor
    accounts,         \* the DashMap client -> Account of the transaction processor
    sd,               \* shutdown(): position, client awaited, entries left
    shutdownResult,   \* what shutdown() returned: "none" until it returns
    spawned,          \* per client: number of create_channel calls (history)
    sent,             \* per client: number of transactions sent (history)
    applied,          \* per client: sequence numbers handed to the processor (history)
    firstFatal,       \* the client whose worker failed first, 0 if none (history)
    input             \* the input of process(): its bound and, where they are
                      \* recorded, the rows process() has read (history)

accountVars == <<account, last, steps>>
pipelineVars == <<pc, nread, pending, processResult, senders_and_handles, sender, inbox,
                  receiver, worker, received, accounts, sd, shutdownResult, spawned, sent,
                  applied, firstFatal, input>>
vars == <<account, last, steps, pc, nread, pending, processResult, senders_and_handles,
          sender, inbox, receiver, worker, received, accounts, sd, shutdownResult, spawned,
          sent, applied, firstFatal, input>>

(***************************************************************************)
(* Data model (account.rs, model.rs).                                      *)
(***************************************************************************)
AccountStatus == {"Active", "Locked"}
DepositStatus == {"Accepted", "Held", "Resolved", "ChargedBack"}
TransactionKind == {"Deposit", "Withdrawal", "Dispute", "Resolve", "ChargeBack"}

\* Account::active(client_id): Active, zero snapshot, empty ledgers.
ActiveAccount(client_id) ==
    [client_id |-> client_id, status |-> "Active", available |-> 0, held |-> 0,
     deposits |-> <<>>, withdrawals |-> <<>>]

Transaction(client_id, transaction_id, kind, amount) ==
    [client_id |-> client_id, transaction_id |-> transaction_id, kind |-> kind,
     amount |-> amount]

\* HashMap::insert
Insert(map, key, value) ==
    [k \in (DOMAIN map) \cup {key} |-> IF k = key THEN value ELSE map[k]]

Outcome(acct, result) == [account |-> acct, result |-> result]

(***************************************************************************)
(* Transactors (account/transactors).  Each returns the account after the  *)
(* call and the value returned: a SuccessStatus, the transactor's error,   *)
(* or "Panic" when an assertion fails.                                     *)
(***************************************************************************)
\* Mutant of deposit: a recorded transaction id is not looked up, the deposit
\* is credited and recorded again.
DepositWithoutDuplicateCheck(acct, transaction_id, amount) ==
    IF acct.status = "Locked" THEN Outcome(acct, "AccountLocked")
    ELSE Outcome([acct EXCEPT
                     !.available = @ + amount,
                     !.deposits = Insert(@, transaction_id,
                                         [amount |-> amount, status |-> "Accepted"])],
                 "Transacted")

\* Mutant of deposit: the amounts of a recorded deposit and of the replay
\* are not compared, any replay is a Duplicate.
DepositIgnoresAmount(acct, transaction_id, amount) ==
    IF acct.status = "Locked" THEN Outcome(acct, "AccountLocked")
    ELSE IF transaction_id \in DOMAIN acct.deposits
         THEN Outcome(acct, "Duplicate")
         ELSE Outcome([acct EXCEPT
                          !.available = @ + amount,
                          !.deposits = Insert(@, transaction_id,
                                              [amount |-> amount, status |-> "Accepted"])],
                      "Transacted")

\* SimpleDepositor::deposit
deposit(acct, transaction_id, amount) ==
    IF acct.status = "Locked" THEN Outcome(acct, "AccountLocked")
    ELSE IF transaction_id \in DOMAIN acct.deposits
         THEN IF acct.deposits[transaction_id].amount = amount
              THEN Outcome(acct, "Duplicate")
              ELSE Outcome(acct, "Panic")
         ELSE Outcome([acct EXCEPT
                          !.available = @ + amount,
                          !.deposits = Insert(@, transaction_id,
                                              [amount |-> amount, status |-> "Accepted"])],
                      "Transacted")

\* Mutant of withdraw: the lock check is missing.
WithdrawWithoutLockCheck(acct, transaction_id, amount) ==
    IF amount # 0 /\ acct.available < amount
    THEN Outcome(acct, "InsufficientFund")
    ELSE Outcome([acct EXCEPT
                     !.available = @ - amount,
                     !.withdrawals = Insert(@, transaction_id,
                                            [amount |-> amount, status |-> "Accepted"])],
                 "Ok")

\* Mutant of withdraw: the balance is debited before it is checked.
WithdrawDebitsBeforeCheck(acct, transaction_id, amount) ==
    IF acct.status = "Locked" THEN Outcome(acct, "AccountLocked")
    ELSE LET debited == [acct EXCEPT !.available = @ - amount] IN
         IF amount # 0 /\ debited.available < 0
         THEN Outcome(debited, "InsufficientFund")
         ELSE Outcome([debited EXCEPT
                          !.withdrawals = Insert(@, transaction_id,
                                                 [amount |-> amount, status |-> "Accepted"])],
                      "Ok")

\* SimpleWithdrawer::withdraw (returns Ok(()) on success)
withdraw(acct, transaction_id, amount) ==
    IF acct.status = "Locked" THEN Outcome(acct, "AccountLocked")
    ELSE IF amount # 0 /\ acct.available < amount
         THEN Outcome(acct, "InsufficientFund")
         ELSE Outcome([acct EXCEPT
                          !.available = @ - amount,
                          !.withdrawals = Insert(@, transaction_id,
                                                 [amount |-> amount, status |-> "Accepted"])],
                      "Ok")

\* Mutant of dispute: the lock check comes first, before the lookup.
DisputeLockCheckFirst(acct, transaction_id) ==
    IF acct.status = "Locked" THEN Outcome(acct, "AccountLocked")
    ELSE IF transaction_id \in DOMAIN acct.deposits
    THEN LET dep == acct.deposits[transaction_id] IN
         IF dep.status = "Accepted"
         THEN Outcome([acct EXCEPT
                          !.available = @ - dep.amount,
                          !.held = @ + dep.amount,
                          !.deposits[transaction_id].status = "Held"],
                      "Transacted")
         ELSE Outcome(acct, "Duplicate")
    ELSE Outcome(acct, "NoTransactionFound")

\* CreditDisputer::dispute
dispute(acct, transaction_id) ==
    IF transaction_id \in DOMAIN acct.deposits
    THEN LET dep == acct.deposits[transaction_id] IN
         IF dep.status = "Accepted"
         THEN IF acct.status = "Locked" THEN Outcome(acct, "AccountLocked")
              ELSE Outcome([acct EXCEPT
                               !.available = @ - dep.amount,
                               !.held = @ + dep.amount,
                               !.deposits[transaction_id].status = "Held"],
                           "Transacted")
         ELSE Outcome(acct, "Duplicate")
    ELSE IF acct.status = "Locked" THEN Outcome(acct, "AccountLocked")
         ELSE Outcome(acct, "NoTransactionFound")

\* Mutant of resolve: the held amount is released but not credited back to
\* available.
ResolveDropsFunds(acct, transaction_id) ==
    IF transaction_id \in DOMAIN acct.deposits
    THEN LET dep == acct.deposits[transaction_id] IN
         CASE dep.status = "Held" ->
                IF acct.status = "Locked" THEN Outcome(acct, "AccountLocked")
                ELSE Outcome([acct EXCEPT
                                 !.held = @ - dep.amount,
                                 !.deposits[transaction_id].status = "Resolved"],
                             "Transacted")
           [] dep.status = "Resolved" -> Outcome(acct, "Duplicate")
           [] OTHER ->
                IF acct.status = "Locked" THEN Outcome(acct, "AccountLocked")
                ELSE Outcome(acct, "NonDisputedTransaction")
    ELSE IF acct.status = "Locked" THEN Outcome(acct, "AccountLocked")
         ELSE Outcome(acct, "NoTransactionFound")

\* CreditResolver::resolve
resolve(acct, transaction_id) ==
    IF transaction_id \in DOMAIN acct.deposits
    THEN LET dep == acct.deposits[transaction_id] IN
         CASE dep.status = "Held" ->
                IF acct.status = "Locked" THEN Outcome(acct, "AccountLocked")
                ELSE Outcome([acct EXCEPT
                                 !.available = @ + dep.amount,
                                 !.held = @ - dep.amount,
                                 !.deposits[transaction_id].status = "Resolved"],
                             "Transacted")
           [] dep.status = "Resolved" -> Outcome(acct, "Duplicate")
           [] OTHER ->
                IF acct.status = "Locked" THEN Outcome(acct, "AccountLocked")
                ELSE Outcome(acct, "NonDisputedTransaction")
    ELSE IF acct.status = "Locked" THEN Outcome(acct, "AccountLocked")
         ELSE Outcome(acct, "NoTransactionFound")

\* Mutant of chargeback: the charged back amount is taken from available as
\* well as from held.
ChargebackDebitsAvailable(acct, transaction_id) ==
    IF transaction_id \in DOMAIN acct.deposits
    THEN LET dep == acct.deposits[transaction_id] IN
         CASE dep.status = "Held" ->
                IF acct.status = "Locked" THEN Outcome(acct, "AccountLocked")
                ELSE Outcome([acct EXCEPT
                                 !.available = @ - dep.amount,
                                 !.held = @ - dep.amount,
                                 !.deposits[transaction_id].status = "ChargedBack",
                                 !.status = "Locked"],
                             "Transacted")
           [] dep.status = "ChargedBack" -> Outcome(acct, "Duplicate")
           [] OTHER ->
                IF acct.status = "Locked" THEN Outcome(acct, "AccountLocked")
                ELSE Outcome(acct, "NonDisputedTransaction")
    ELSE IF acct.status = "Locked" THEN Outcome(acct, "AccountLocked")
         ELSE Outcome(acct, "NoTransactionFound")

\* CreditBackcharger::chargeback
chargeback(acct, transaction_id) ==
    IF transaction_id \in DOMAIN acct.deposits
    THEN LET dep == acct.deposits[transaction_id] IN
         CASE dep.status = "Held" ->
                IF acct.status = "Locked" THEN Outcome(acct, "AccountLocked")
                ELSE Outcome([acct EXCEPT
                                 !.held = @ - dep.amount,
                                 !.deposits[transaction_id].status = "ChargedBack",
                                 !.status = "Locked"],
                             "Transacted")
           [] dep.status = "ChargedBack" -> Outcome(acct, "Duplicate")
           [] OTHER ->
                IF acct.status = "Locked" THEN Outcome(acct, "AccountLocked")
                ELSE Outcome(acct, "NonDisputedTransaction")
    ELSE IF acct.status = "Locked" THEN Outcome(acct, "AccountLocked")
         ELSE Outcome(acct, "NoTransactionFound")

(***************************************************************************)
(* The CreditDebit transactors, the ones SimpleAccountTransactor::new      *)
(* builds the account transactor with.  They look the transaction id up    *)
(* among the deposits and then among the withdrawals, and return Ok(()) on *)
(* success.  CreditDisputer, CreditResolver and CreditBackcharger above    *)
(* are the implementations of the same traits that look at deposits only   *)
(* and return a SuccessStatus; no constructor uses them.                   *)
(***************************************************************************)
WithdrawalStatus == {"Accepted", "Rejected", "Held", "Resolved", "ChargedBack"}

\* Mutant of credit_debit_dispute: a deposit that has left Accepted can be
\* disputed again.
CreditDebitDisputeAgain(acct, transaction_id) ==
    IF transaction_id \in DOMAIN acct.deposits
    THEN LET dep == acct.deposits[transaction_id] IN
         IF dep.status \in {"Accepted", "Resolved"}
         THEN IF acct.status = "Locked" THEN Outcome(acct, "AccountLocked")
              ELSE Outcome([acct EXCEPT
                               !.available = @ - dep.amount,
                               !.held = @ + dep.amount,
                               !.deposits[transaction_id].status = "Held"],
                           "Ok")
         ELSE Outcome(acct, "Ok")
    ELSE IF transaction_id \in DOMAIN acct.withdrawals
    THEN LET wd == acct.withdrawals[transaction_id] IN
         IF wd.status = "Accepted"
         THEN IF acct.status = "Locked" THEN Outcome(acct, "AccountLocked")
              ELSE Outcome([acct EXCEPT
                               !.withdrawals[transaction_id].status = "Held",
                               !.available = @ + wd.amount,
                               !.held = @ - wd.amount],
                           "Ok")
         ELSE Outcome(acct, "Ok")
    ELSE Outcome(acct, "NoTransactionFound")

\* Mutant of credit_debit_dispute: no more than the available funds of a
\* disputed deposit are moved to held.
CreditDebitDisputeAvailableFunds(acct, transaction_id) ==
    IF transaction_id \in DOMAIN acct.deposits
    THEN LET dep == acct.deposits[transaction_id]
             moved == IF acct.available < dep.amount THEN acct.available
                      ELSE dep.amount
         IN
         IF dep.status = "Accepted"
         THEN IF acct.status = "Locked" THEN Outcome(acct, "AccountLocked")
              ELSE Outcome([acct EXCEPT
                               !.available = @ - moved,
                               !.held = @ + moved,
                               !.deposits[transaction_id].status = "Held"],
                           "Ok")
         ELSE Outcome(acct, "Ok")
    ELSE IF transaction_id \in DOMAIN acct.withdrawals
    THEN LET wd == acct.withdrawals[transaction_id] IN
         IF wd.status = "Accepted"
         THEN IF acct.status = "Locked" THEN Outcome(acct, "AccountLocked")
              ELSE Outcome([acct EXCEPT
                               !.withdrawals[transaction_id].status = "Held",
                               !.available = @ + wd.amount,
                               !.held = @ - wd.amount],
                           "Ok")
         ELSE Outcome(acct, "Ok")
    ELSE Outcome(acct, "NoTransactionFound")

\* CreditDebitDisputer::dispute
credit_debit_dispute(acct, transaction_id) ==
    IF transaction_id \in DOMAIN acct.deposits
    THEN LET dep == acct.deposits[transaction_id] IN
         IF dep.status = "Accepted"
         THEN IF acct.status = "Locked" THEN Outcome(acct, "AccountLocked")
              ELSE Outcome([acct EXCEPT
                               !.available = @ - dep.amount,
                               !.held = @ + dep.amount,
                               !.deposits[transaction_id].status = "Held"],
                           "Ok")
         ELSE Outcome(acct, "Ok")
    ELSE IF transaction_id \in DOMAIN acct.withdrawals
    THEN LET wd == acct.withdrawals[transaction_id] IN
         IF wd.status = "Accepted"
         THEN IF acct.status = "Locked" THEN Outcome(acct, "AccountLocked")
              ELSE Outcome([acct EXCEPT
                               !.withdrawals[transaction_id].status = "Held",
                               !.available = @ + wd.amount,
                               !.held = @ - wd.amount],
                           "Ok")
         ELSE Outcome(acct, "Ok")
    ELSE Outcome(acct, "NoTransactionFound")

\* Mutant of credit_debit_resolve: a deposit that was never disputed is
\* resolved.
CreditDebitResolveUndisputed(acct, transaction_id) ==
    IF transaction_id \in DOMAIN acct.deposits
    THEN LET dep == acct.deposits[transaction_id] IN
         CASE dep.status \in {"Held", "Accepted"} ->
                IF acct.status = "Locked" THEN Outcome(acct, "AccountLocked")
                ELSE Outcome([acct EXCEPT
                                 !.available = @ + dep.amount,
                                 !.held = @ - dep.amount,
                                 !.deposits[transaction_id].status = "Resolved"],
                             "Ok")
           [] dep.status = "Resolved" -> Outcome(acct, "Ok")
           [] OTHER -> Outcome(acct, "NonDisputedTransaction")
    ELSE IF transaction_id \in DOMAIN acct.withdrawals
    THEN LET wd == acct.withdrawals[transaction_id] IN
         CASE wd.status = "Held" ->
                IF acct.status = "Locked" THEN Outcome(acct, "AccountLocked")
                ELSE Outcome([acct EXCEPT
                                 !.available = @ - wd.amount,
                                 !.held = @ + wd.amount,
                                 !.withdrawals[transaction_id].status = "Resolved"],
                             "Ok")
           [] wd.status = "Resolved" -> Outcome(acct, "Ok")
           [] OTHER -> Outcome(acct, "NonDisputedTransaction")
    ELSE Outcome(acct, "NoTransactionFound")

\* CreditDebitResolver::resolve
credit_debit_resolve(acct, transaction_id) ==
    IF transaction_id \in DOMAIN acct.deposits
    THEN LET dep == acct.deposits[transaction_id] IN
         CASE dep.status = "Held" ->
                IF acct.status = "Locked" THEN Outcome(acct, "AccountLocked")
                ELSE Outcome([acct EXCEPT
                                 !.available = @ + dep.amount,
                                 !.held = @ - dep.amount,
                                 !.deposits[transaction_id].status = "Resolved"],
                             "Ok")
           [] dep.status = "Resolved" -> Outcome(acct, "Ok")
           [] OTHER -> Outcome(acct, "NonDisputedTransaction")
    ELSE IF transaction_id \in DOMAIN acct.withdrawals
    THEN LET wd == acct.withdrawals[transaction_id] IN
         CASE wd.status = "Held" ->
                IF acct.status = "Locked" THEN Outcome(acct, "AccountLocked")
                ELSE Outcome([acct EXCEPT
                                 !.available = @ - wd.amount,
                                 !.held = @ + wd.amount,
                                 !.withdrawals[transaction_id].status = "Resolved"],
                             "Ok")
           [] wd.status = "Resolved" -> Outcome(acct, "Ok")
           [] OTHER -> Outcome(acct, "NonDisputedTransaction")
    ELSE Outcome(acct, "NoTransactionFound")

\* CreditDebitBackcharger::chargeback
credit_debit_chargeback(acct, transaction_id) ==
    IF transaction_id \in DOMAIN acct.deposits
    THEN LET dep == acct.deposits[transaction_id] IN
         CASE dep.status = "Held" ->
                IF acct.status = "Locked" THEN Outcome(acct, "AccountLocked")
                ELSE Outcome([acct EXCEPT
                                 !.held = @ - dep.amount,
                                 !.deposits[transaction_id].status = "ChargedBack",
                                 !.status = "Locked"],
                             "Ok")
           [] dep.status = "ChargedBack" -> Outcome(acct, "Ok")
           [] OTHER -> Outcome(acct, "NonDisputedTransaction")
    ELSE IF transaction_id \in DOMAIN acct.withdrawals
    THEN LET wd == acct.withdrawals[transaction_id] IN
         CASE wd.status = "Held" ->
                IF acct.status = "Locked" THEN Outcome(acct, "AccountLocked")
                ELSE Outcome([acct EXCEPT
                                 !.held = @ + wd.amount,
                                 !.withdrawals[transaction_id].status = "ChargedBack",
                                 !.status = "Locked"],
                             "Ok")
           [] wd.status = "ChargedBack" -> Outcome(acct, "Ok")
           [] OTHER -> Outcome(acct, "NonDisputedTransaction")
    ELSE Outcome(acct, "NoTransactionFound")

(***************************************************************************)
(* Account transactor (account/account_transactor.rs).                     *)
(***************************************************************************)
\* The conversion of a transactor's error into the AccountTransactorError
\* the error handler matches on (AccountLocked, IncompatibleTransaction,
\* InsufficientFundForWithdrawal, NoTransactionFound).
ToAccountTransactorError(result) ==
    CASE result = "AccountLocked" -> "AccountLocked"
      [] result = "NonDisputedTransaction" -> "IncompatibleTransaction"
      [] result = "InsufficientFund" -> "InsufficientFundForWithdrawal"
      [] result = "NoTransactionFound" -> "NoTransactionFound"
      [] result = "Panic" -> "Panic"
      [] OTHER -> "Ok"

\* SimpleAccountTransactor::new followed by the match of transact: the
\* transactor each kind of transaction is dispatched to (SimpleDepositor,
\* SimpleWithdrawer, CreditDebitDisputer, CreditDebitResolver,
\* CreditDebitBackcharger) and its result.
Dispatch(acct, tx) ==
    CASE tx.kind = "Deposit" -> deposit(acct, tx.transaction_id, tx.amount)
      [] tx.kind = "Withdrawal" -> withdraw(acct, tx.transaction_id, tx.amount)
      [] tx.kind = "Dispute" -> credit_debit_dispute(acct, tx.transaction_id)
      [] tx.kind = "Resolve" -> credit_debit_resolve(acct, tx.transaction_id)
      [] tx.kind = "ChargeBack" -> credit_debit_chargeback(acct, tx.transaction_id)

\* SimpleAccountTransactor::transact: the SuccessStatus is dropped, an error
\* is converted and propagated.
transact(acct, tx) ==
    LET out == Dispatch(acct, tx) IN
    Outcome(out.account, ToAccountTransactorError(out.result))

(***************************************************************************)
(* SpecAccount: events applied to one account.                             *)
(***************************************************************************)
AccountEvents ==
    {Transaction(1, id, k, a) : id \in TxIds, k \in {"Deposit", "Withdrawal"},
                                a \in Amounts}
    \cup {Transaction(1, id, k, NoAmount) : id \in TxIds,
                                            k \in {"Dispute", "Resolve", "ChargeBack"}}

NoTx == Transaction(0, 0, "None", NoAmount)

\* A value returned by process(), by a worker task or by shutdown(): its kind
\* ("none" while it has not returned, "Ok", or the error's variant), and for
\* a ProcessError the AccountTransactorError and the transaction it carries.
Result(kind, error, tx) == [kind |-> kind, error |-> error, tx |-> tx]
NoResult == Result("none", "none", NoTx)
OkResult == Result("Ok", "none", NoTx)

\* A transaction in a channel, with its per-client sequence number (the
\* number is bookkeeping of the model: the k-th transaction sent to the
\* client's channel carries k).
Item(tx, seq) == [tx |-> tx, seq |-> seq]
NoItem == Item(NoTx, 0)

\* The input of process(): the number of rows the reader yields at most,
\* and the rows read so far for the specifications that compare a run with
\* its input; the others keep no record of the rows.
NotRecorded == [recorded |-> FALSE, rows |-> <<>>, limit |-> 0]
Recorded(in, record) ==
    IF in.recorded THEN [in EXCEPT !.rows = Append(@, record)] ELSE in

InitPipelineIdle ==
    /\ pc = "read"
    /\ nread = 0
    /\ pending = NoItem
    /\ processResult = NoResult
    /\ senders_and_handles = {}
    /\ sender = [c \in Clients |-> "none"]
    /\ inbox = [c \in Clients |-> <<>>]
    /\ receiver = [c \in Clients |-> "none"]
    /\ worker = [c \in Clients |-> [st |-> "none", result |-> NoResult]]
    /\ received = [c \in Clients |-> NoItem]
    /\ accounts = <<>>
    /\ sd = [pc |-> "idle", cur |-> 0, left |-> {}]
    /\ shutdownResult = NoResult
    /\ spawned = [c \in Clients |-> 0]
    /\ sent = [c \in Clients |-> 0]
    /\ applied = [c \in Clients |-> <<>>]
    /\ firstFatal = 0
    /\ input = NotRecorded

InitAccount ==
    /\ account = ActiveAccount(1)
    /\ last = [tx |-> NoTx, raw |-> "none", result |-> "none",
               before |-> ActiveAccount(1)]
    /\ steps = 0
    /\ InitPipelineIdle

\* One event applied through the account transactor.
Apply(tx) ==
    /\ steps < MaxSteps
    /\ LET out == transact(account, tx) IN
       /\ account' = out.account
       /\ last' = [tx |-> tx, raw |-> Dispatch(account, tx).result,
                   result |-> out.result, before |-> account]
    /\ steps' = steps + 1
    /\ UNCHANGED pipelineVars

NextAccount == \E tx \in AccountEvents : Apply(tx)

SpecAccount == InitAccount /\ [][NextAccount]_vars


(***************************************************************************)
(* SpecLifecycle: longer sequences of deposits and of the events that      *)
(* refer to them, applied to one account.                                  *)
(***************************************************************************)
LifecycleEvents ==
    {Transaction(1, id, "Deposit", a) : id \in TxIds, a \in StreamAmounts}
    \cup {Transaction(1, id, k, NoAmount) : id \in TxIds,
                                            k \in {"Dispute", "Resolve", "ChargeBack"}}

\* One event applied through the account transactor.
ApplyLifecycle(tx) ==
    /\ steps < MaxLifecycleSteps
    /\ LET out == transact(account, tx) IN
       /\ account' = out.account
       /\ last' = [tx |-> tx, raw |-> Dispatch(account, tx).result,
                   result |-> out.result, before |-> account]
    /\ steps' = steps + 1
    /\ UNCHANGED pipelineVars

NextLifecycle == \E tx \in LifecycleEvents : ApplyLifecycle(tx)

SpecLifecycle == InitAccount /\ [][NextLifecycle]_vars

(***************************************************************************)
(* Amount parsing (model/amount.rs) and record conversion                  *)
(* (transaction_stream_processor/transaction_record_converter.rs).         *)
(***************************************************************************)
\* 10_000f64: an Amount counts units of 1/10000.
Scale == 10000

\* The text of an amount field as str::parse::<f64> reads it: a decimal
\* number given by its sign, the digits before and after the point and its
\* exponent, "nan", "inf" (or "infinity") with a sign, or text that is no
\* number.
Literal(kind, neg, int, frac, exp) ==
    [kind |-> kind, neg |-> neg, int |-> int, frac |-> frac, exp |-> exp]

\* The decimal digits of a natural number.
RECURSIVE Digits(_)
Digits(n) == IF n < 10 THEN <<n>> ELSE Digits(n \div 10) \o <<n % 10>>

\* A plain decimal literal without exponent: its sign, its integer part and
\* the digits of its fraction; valid = FALSE for text that is no number.
AmountLiteral(valid, neg, int, frac) ==
    Literal(IF valid THEN "number" ELSE "invalid", neg, Digits(int), frac, 0)
NotANumber == AmountLiteral(FALSE, FALSE, 0, <<>>)

(***************************************************************************)
(* Arithmetic on naturals of any size, for the f64 arithmetic of from_str: *)
(* a natural is the sequence of its digits in base 2^15, lowest first,     *)
(* without leading zeros (0 is the empty sequence).                        *)
(***************************************************************************)
LimbBits == 15
Base == 32768

\* n * k + c for 0 <= k < Base and 0 <= c < Base.
RECURSIVE MulAdd(_, _, _)
MulAdd(n, k, c) ==
    IF n = <<>> THEN (IF c = 0 THEN <<>> ELSE <<c>>)
    ELSE LET t == n[1] * k + c IN
         <<t % Base>> \o MulAdd(Tail(n), k, t \div Base)

RECURSIVE Norm(_)
Norm(n) ==
    IF n # <<>> /\ n[Len(n)] = 0 THEN Norm(SubSeq(n, 1, Len(n) - 1)) ELSE n

\* -1, 0 or 1 as a < b, a = b or a > b.
RECURSIVE CmpLimbs(_, _, _)
CmpLimbs(a, b, i) ==
    IF i = 0 THEN 0
    ELSE IF a[i] # b[i] THEN (IF a[i] < b[i] THEN -1 ELSE 1)
    ELSE CmpLimbs(a, b, i - 1)
Cmp(a, b) ==
    IF Len(a) # Len(b) THEN (IF Len(a) < Len(b) THEN -1 ELSE 1)
    ELSE CmpLimbs(a, b, Len(a))

\* a - b for a >= b.
RECURSIVE SubLimbs(_, _, _, _)
SubLimbs(a, b, i, borrow) ==
    IF i > Len(a) THEN <<>>
    ELSE LET t == a[i] - (IF i <= Len(b) THEN b[i] ELSE 0) - borrow IN
         <<IF t < 0 THEN t + Base ELSE t>>
             \o SubLimbs(a, b, i + 1, IF t < 0 THEN 1 ELSE 0)
Sub(a, b) == Norm(SubLimbs(a, b, 1, 0))

RECURSIVE Pow(_, _)
Pow(b, n) == IF n = 0 THEN 1 ELSE b * Pow(b, n - 1)

RECURSIVE Bits(_)
Bits(x) == IF x = 0 THEN 0 ELSE 1 + Bits(x \div 2)

\* The number of binary digits of n.
BitLen(n) == IF n = <<>> THEN 0 ELSE LimbBits * (Len(n) - 1) + Bits(n[Len(n)])

IsOdd(n) == n # <<>> /\ n[1] % 2 = 1

\* n * 2^s.
Shl(n, s) ==
    IF n = <<>> THEN <<>>
    ELSE [i \in 1..(s \div LimbBits) |-> 0] \o MulAdd(n, Pow(2, s % LimbBits), 0)

\* n * 10^k, four decimal places at a time.
RECURSIVE TimesPow10(_, _)
TimesPow10(n, k) ==
    IF k < 4 THEN MulAdd(n, Pow(10, k), 0)
    ELSE MulAdd(TimesPow10(n, k - 4), 10000, 0)

\* The natural a sequence of decimal digits denotes.
RECURSIVE FromDigits(_)
FromDigits(digits) ==
    IF digits = <<>> THEN <<>>
    ELSE MulAdd(FromDigits(SubSeq(digits, 1, Len(digits) - 1)), 10,
                digits[Len(digits)])

\* Quotient and remainder of a division, bit by bit from the top: d is the
\* quotient found so far and what is left of the dividend.
RECURSIVE DivStep(_, _, _)
DivStep(d, den, i) ==
    IF i < 0 THEN d
    ELSE LET t == Shl(den, i) IN
         IF Cmp(d.r, t) >= 0
         THEN DivStep([q |-> MulAdd(d.q, 2, 1), r |-> Sub(d.r, t)], den, i - 1)
         ELSE DivStep([q |-> MulAdd(d.q, 2, 0), r |-> d.r], den, i - 1)
DivMod(num, den) ==
    DivStep([q |-> <<>>, r |-> num], den, BitLen(num) - BitLen(den))

\* num / den rounded to the nearest natural, ties to the even one: the
\* rounding of every f64 operation.
RoundHalfEven(num, den) ==
    LET d == DivMod(num, den)
        c == Cmp(MulAdd(d.r, 2, 0), den)
    IN  IF c > 0 \/ (c = 0 /\ IsOdd(d.q)) THEN MulAdd(d.q, 1, 1) ELSE d.q

\* The integer a natural below 2^31 is.
RECURSIVE AsInteger(_)
AsInteger(n) == IF n = <<>> THEN 0 ELSE n[1] + Base * AsInteger(Tail(n))

(***************************************************************************)
(* f64 values by their magnitude q * 2^e, with q of at most 53 bits (or    *)
(* 2^53 after a rounding).                                                 *)
(***************************************************************************)
MantissaBits == 53
I64Bits == 63

\* The f64 nearest to n / m, for naturals n, m # 0 with n / m in the range
\* of the normal f64 values: str::parse::<f64> rounds the decimal value it
\* reads to the nearest f64, ties to even.
NearestF64(n, m) ==
    LET Scaled(x) == IF x >= 0 THEN [num |-> n, den |-> Shl(m, x)]
                     ELSE [num |-> Shl(n, 0 - x), den |-> m]
        e0 == BitLen(n) - BitLen(m) - MantissaBits
        e == IF BitLen(DivMod(Scaled(e0).num, Scaled(e0).den).q) > MantissaBits
             THEN e0 + 1 ELSE e0
    IN  [q |-> RoundHalfEven(Scaled(e).num, Scaled(e).den), e |-> e]

\* v * 10_000f64: the product rounded to the nearest f64.
TimesScale(v) ==
    LET p == MulAdd(v.q, Scale, 0)
        s == IF BitLen(p) > MantissaBits THEN BitLen(p) - MantissaBits ELSE 0
    IN  [q |-> RoundHalfEven(p, Shl(<<1>>, s)), e |-> v.e + s]

\* The largest magnitude an i64 of the given sign holds: 2^63 - 1, or 2^63
\* below zero.
I64Max(neg) ==
    IF neg THEN Shl(<<1>>, I64Bits) ELSE Sub(Shl(<<1>>, I64Bits), <<1>>)

\* `v as i64`, the magnitude: the fraction is dropped, and a magnitude that
\* i64 cannot hold is replaced by the largest it holds.
I64Magnitude(v, neg) ==
    IF BitLen(v.q) + v.e > I64Bits THEN I64Max(neg)
    ELSE IF v.e >= 0 THEN Shl(v.q, v.e)
    ELSE IF BitLen(v.q) + v.e <= 0 THEN <<>>
    ELSE DivMod(v.q, Shl(<<1>>, 0 - v.e)).q

\* An i64 by its sign and its magnitude.
I64(neg, mag) == [neg |-> neg /\ mag # <<>>, mag |-> mag]

RECURSIVE StripZeros(_)
StripZeros(digits) ==
    IF digits # <<>> /\ Head(digits) = 0 THEN StripZeros(Tail(digits)) ELSE digits

\* Amount4DecimalBased::from_str: parse as f64, times 10_000f64, as i64.
\* NaN becomes 0 and an infinity the largest i64 of its sign.  The number
\* read is digits * 10^e10: below 10^-5 its product with 10_000 is below 1
\* and the result is 0, from 10^15 on the product exceeds every i64, and in
\* between the two f64 roundings and the truncation are computed.
from_str(s) ==
    LET digits == StripZeros(s.int \o s.frac)
        e10 == s.exp - Len(s.frac)
        d == FromDigits(digits)
        v == IF e10 >= 0 THEN NearestF64(TimesPow10(d, e10), <<1>>)
             ELSE NearestF64(d, TimesPow10(<<1>>, 0 - e10))
    IN  CASE s.kind = "invalid" -> [ok |-> FALSE, value |-> I64(FALSE, <<>>)]
          [] s.kind = "nan" -> [ok |-> TRUE, value |-> I64(FALSE, <<>>)]
          [] s.kind = "inf" -> [ok |-> TRUE, value |-> I64(s.neg, I64Max(s.neg))]
          [] digits = <<>> \/ Len(digits) + e10 <= -5 ->
                [ok |-> TRUE, value |-> I64(FALSE, <<>>)]
          [] Len(digits) + e10 > 15 ->
                [ok |-> TRUE, value |-> I64(s.neg, I64Max(s.neg))]
          [] OTHER ->
                [ok |-> TRUE, value |-> I64(s.neg, I64Magnitude(TimesScale(v), s.neg))]

\* The amount of the model's transactions and accounts: the i64 as an
\* integer, for the amounts below 2^31 the specifications read.
Amount(i) == IF i.neg THEN 0 - AsInteger(i.mag) ELSE AsInteger(i.mag)

Some(s) == [some |-> TRUE, lit |-> s]
None == [some |-> FALSE, lit |-> NotANumber]

TransactionRecord(txn_type, client_id, transaction_id, optional_amount) ==
    [txn_type |-> txn_type, client_id |-> client_id,
     transaction_id |-> transaction_id, optional_amount |-> optional_amount]

KindOf(txn_type) ==
    CASE txn_type = "deposit" -> "Deposit"
      [] txn_type = "withdrawal" -> "Withdrawal"
      [] txn_type = "dispute" -> "Dispute"
      [] txn_type = "resolve" -> "Resolve"
      [] txn_type = "chargeback" -> "ChargeBack"

\* Mutant of to_transaction: a deposit or withdrawal without a usable amount
\* is converted with amount 0 instead of being rejected.
ToTransactionDefaultsAmount(record) ==
    IF record.txn_type \in {"deposit", "withdrawal"}
    THEN LET amount == IF record.optional_amount.some
                       THEN from_str(record.optional_amount.lit)
                       ELSE [ok |-> FALSE, value |-> I64(FALSE, <<>>)]
         IN  [ok |-> TRUE,
              tx |-> Transaction(record.client_id, record.transaction_id,
                                 KindOf(record.txn_type),
                                 IF amount.ok THEN Amount(amount.value) ELSE 0)]
    ELSE [ok |-> TRUE,
          tx |-> Transaction(record.client_id, record.transaction_id,
                             KindOf(record.txn_type), NoAmount)]

\* to_transaction: Ok(Transaction) or Err(ParsingError).
to_transaction(record) ==
    IF record.txn_type \in {"deposit", "withdrawal"}
    THEN IF ~record.optional_amount.some
         THEN [ok |-> FALSE, tx |-> NoTx]
         ELSE LET amount == from_str(record.optional_amount.lit) IN
              IF ~amount.ok THEN [ok |-> FALSE, tx |-> NoTx]
              ELSE [ok |-> TRUE,
                    tx |-> Transaction(record.client_id, record.transaction_id,
                                       KindOf(record.txn_type),
                                       Amount(amount.value))]
    ELSE [ok |-> TRUE,
          tx |-> Transaction(record.client_id, record.transaction_id,
                             KindOf(record.txn_type), NoAmount)]

\* The rows process() may read in Spec.
StreamLiterals == {AmountLiteral(TRUE, FALSE, n, <<0>>) : n \in StreamAmounts}
StreamRecords ==
    {TransactionRecord("deposit", c, id, Some(s)) :
        c \in Clients, id \in StreamTxIds, s \in StreamLiterals}
    \cup {TransactionRecord("withdrawal", c, id, Some(AmountLiteral(TRUE, FALSE, 2, <<0>>))) :
        c \in Clients, id \in StreamTxIds}
    \cup {TransactionRecord(t, c, id, None) :
        t \in {"dispute", "resolve", "chargeback"}, c \in Clients, id \in StreamTxIds}
\* A row the reader fails to deserialize.
MalformedRow == TransactionRecord("malformed", 0, 0, None)

\* Rows to_transaction rejects: no amount, or an amount that is no number.
BadRecords ==
    {TransactionRecord("deposit", 1, 1, None),
     TransactionRecord("withdrawal", 1, 1, Some(NotANumber))}

\* to_transaction of each row the reader can yield, converted once: the
\* conversion depends on the row alone.
Converted ==
    [record \in StreamRecords \cup BadRecords |-> to_transaction(record)]

(***************************************************************************)
(* Transaction processor and error handler.                                *)
(***************************************************************************)
\* Mutant of process: the account is stored only when the transaction is
\* accepted, so a client whose events are all rejected gets no account.
ProcessCreatesOnSuccess(accts, tx) ==
    LET c == tx.client_id
        acct == IF c \in DOMAIN accts THEN accts[c] ELSE ActiveAccount(c)
        out == transact(acct, tx)
    IN  [accounts |-> IF out.result = "Ok" THEN Insert(accts, c, out.account) ELSE accts,
         result |-> CASE out.result = "Ok" -> OkResult
                      [] out.result = "Panic" -> Result("Panic", "none", tx)
                      [] OTHER -> Result("ProcessError", out.result, tx)]

\* SimpleTransactionProcessor::process: the account of the transaction's
\* client is created Active on a miss, the account transactor is applied to
\* it, and an error comes back tagged with the transaction.
process(accts, tx) ==
    LET c == tx.client_id
        acct == IF c \in DOMAIN accts THEN accts[c] ELSE ActiveAccount(c)
        out == transact(acct, tx)
    IN  [accounts |-> Insert(accts, c, out.account),
         result |-> CASE out.result = "Ok" -> OkResult
                      [] out.result = "Panic" -> Result("Panic", "none", tx)
                      [] OTHER -> Result("ProcessError", out.result, tx)]

\* Mutant of handle: every error is returned, none is swallowed.
HandleReturnsAll(account_transactor_error) == TRUE

\* Mutant of handle: AccountLocked is swallowed like InsufficientFund.
HandleSwallowsAccountLocked(account_transactor_error) ==
    account_transactor_error = "IncompatibleTransaction"

\* Mutant of handle: IncompatibleTransaction is swallowed like
\* NoTransactionFound.
HandleSwallowsIncompatibleTransaction(account_transactor_error) ==
    account_transactor_error = "AccountLocked"

\* SimpleErrorHandler::handle: TRUE when the error is returned (the worker
\* ends with it), FALSE when it is swallowed.
handle(account_transactor_error) ==
    CASE account_transactor_error = "AccountLocked" -> TRUE
      [] account_transactor_error = "IncompatibleTransaction" -> TRUE
      [] account_transactor_error = "InsufficientFundForWithdrawal" -> FALSE
      [] account_transactor_error = "NoTransactionFound" -> FALSE

(***************************************************************************)
(* Spec: AsyncCsvStreamProcessor.                                          *)
(***************************************************************************)
\* The rows of a run that has filled the channel of client 1 before its
\* worker has run: a deposit, then resolves of it.  The worker, once it
\* runs, applies the deposit and ends on the first resolve.
BacklogRecord(i) ==
    IF i = 1
    THEN TransactionRecord("deposit", 1, 1, Some(AmountLiteral(TRUE, FALSE, 1, <<0>>)))
    ELSE TransactionRecord("resolve", 1, 1, None)
Backlog == [i \in 1..InboxCapacity |-> BacklogRecord(i)]

\* The runs of process() the specifications follow: from its first row, or
\* from the point where it has read the rows of Backlog.
Starts == {<<>>, Backlog}

\* process() has read the given rows of client 1 (or none) and has sent each
\* of them to the client's channel, and the worker spawned for the client
\* has not run yet: a spawned task runs when the runtime schedules it,
\* which may be after process() has sent these rows.
ProcessStarted(rows) ==
    LET clients == {c \in Clients : c = 1 /\ rows # <<>>} IN
    /\ pc = "read"
    /\ nread = Len(rows)
    /\ pending = NoItem
    /\ processResult = NoResult
    /\ senders_and_handles = clients
    /\ sender = [c \in Clients |-> IF c \in clients THEN "alive" ELSE "none"]
    /\ inbox = [c \in Clients |->
                  IF c \in clients
                  THEN [i \in 1..Len(rows) |-> Item(Converted[rows[i]].tx, i)]
                  ELSE <<>>]
    /\ receiver = [c \in Clients |-> IF c \in clients THEN "open" ELSE "none"]
    /\ worker = [c \in Clients |->
                   [st |-> IF c \in clients THEN "running" ELSE "none",
                    result |-> NoResult]]
    /\ received = [c \in Clients |-> NoItem]
    /\ sd = [pc |-> "idle", cur |-> 0, left |-> {}]
    /\ shutdownResult = NoResult
    /\ spawned = [c \in Clients |-> IF c \in clients THEN 1 ELSE 0]
    /\ sent = [c \in Clients |-> IF c \in clients THEN Len(rows) ELSE 0]
    /\ applied = [c \in Clients |-> <<>>]
    /\ firstFatal = 0

\* The input of a run that has read the given rows: at most fresh rows for
\* a run from the first row, at most MaxBacklogRecords further rows after
\* those of Backlog.
InputAfter(rows, recorded, fresh) ==
    [recorded |-> recorded,
     rows |-> IF recorded THEN rows ELSE <<>>,
     limit |-> IF rows = <<>> THEN fresh ELSE Len(rows) + MaxBacklogRecords]

\* The reader has a further row for process().
MayRead == nread < input.limit

\* A run of process() over an input of at most fresh rows, started on an
\* empty accounts map of the transaction processor.
InitPipeline(recorded, fresh) ==
    /\ account = ActiveAccount(1)
    /\ last = [tx |-> NoTx, raw |-> "none", result |-> "none",
               before |-> ActiveAccount(1)]
    /\ steps = 0
    /\ \E rows \in Starts :
          /\ ProcessStarted(rows)
          /\ input = InputAfter(rows, recorded, fresh)
    /\ accounts = <<>>

Init == InitPipeline(FALSE, MaxRecords)

ProcessReturns(result) ==
    /\ pc' = "done"
    /\ processResult' = result
    /\ pending' = NoItem

\* The channel the transaction goes to: the entry of its client.
Route(tx) == tx.client_id

\* Mutant of NeedsChannel: insert instead of or_insert_with, a new channel
\* and worker on every dispatch.
AlwaysNeedsChannel(c) == TRUE

\* create_channel: TRUE when do_process has to create the client's channel.
NeedsChannel(c) == c \notin senders_and_handles

\* Mutant of SendOutcome: try_send, a full channel is an error.
SendOutcomeTrySend(c) ==
    IF receiver[c] = "closed" THEN "error"
    ELSE IF Len(inbox[c]) < InboxCapacity THEN "sent"
    ELSE "error"

\* Mutant of SendOutcome: the channel is unbounded, a send never waits.
SendOutcomeUnbounded(c) ==
    IF receiver[c] = "closed" THEN "error" ELSE "sent"

\* sender.send(transaction).await on the client's channel: "error" when the
\* receiver is gone, "sent" when the channel has room, "full" (the send stays
\* suspended) otherwise.
SendOutcome(c) ==
    IF receiver[c] = "closed" THEN "error"
    ELSE IF Len(inbox[c]) < InboxCapacity THEN "sent"
    ELSE "full"

\* The effect of the send on process().
Deliver(item, outcome) ==
    LET c == Route(item.tx) IN
    CASE outcome = "error" ->
           /\ ProcessReturns(Result("InternalError", "none", item.tx))
           /\ UNCHANGED <<inbox, sent>>
      [] outcome = "sent" ->
           /\ inbox' = [inbox EXCEPT ![c] = Append(@, item)]
           /\ sent' = [sent EXCEPT ![c] = @ + 1]
           /\ pc' = "read"
           /\ pending' = NoItem
           /\ processResult' = processResult
      [] outcome = "full" ->
           /\ pc' = "send"
           /\ pending' = item
           /\ processResult' = processResult
           /\ UNCHANGED <<inbox, sent>>

\* process(): the reader yields a row that deserializes; to_transaction
\* converts it, do_process looks up (or creates) the client's channel and
\* sends the transaction.
ReadRecord(record) ==
    /\ pc = "read"
    /\ MayRead
    /\ nread' = nread + 1
    /\ input' = Recorded(input, record)
    /\ LET t == Converted[record] IN
       IF ~t.ok
       THEN /\ ProcessReturns(Result("ParsingError", "none", NoTx))
            /\ UNCHANGED <<senders_and_handles, sender, receiver, worker, spawned,
                           inbox, sent>>
       ELSE LET c == Route(t.tx) IN
            /\ IF NeedsChannel(c)
               THEN /\ senders_and_handles' = senders_and_handles \cup {c}
                    /\ sender' = [sender EXCEPT ![c] = "alive"]
                    /\ receiver' = [receiver EXCEPT ![c] = "open"]
                    /\ worker' = [worker EXCEPT ![c].st = "running"]
                    /\ spawned' = [spawned EXCEPT ![c] = @ + 1]
               ELSE UNCHANGED <<senders_and_handles, sender, receiver, worker, spawned>>
            /\ Deliver(Item(t.tx, sent[c] + 1), SendOutcome(c))
    /\ UNCHANGED <<accounts, sd, shutdownResult, applied, firstFatal, received, accountVars>>

\* process(): the reader yields a row that does not deserialize.
ReadMalformedRow ==
    /\ pc = "read"
    /\ MayRead
    /\ nread' = nread + 1
    /\ input' = Recorded(input, MalformedRow)
    /\ ProcessReturns(Result("ParsingError", "none", NoTx))
    /\ UNCHANGED <<senders_and_handles, sender, inbox, receiver, worker, accounts, sd,
                   shutdownResult, spawned, sent, applied, firstFatal, received, accountVars>>

\* process(): the reader is exhausted.
EndOfInput ==
    /\ pc = "read"
    /\ ProcessReturns(OkResult)
    /\ UNCHANGED <<nread, senders_and_handles, sender, inbox, receiver, worker, accounts,
                   sd, shutdownResult, spawned, sent, applied, firstFatal,
                   input, received, accountVars>>

\* A send suspended on a full channel completes: with an error when the
\* receiver is gone, with the transaction queued when the channel has room.
Send ==
    /\ pc = "send"
    /\ SendOutcome(Route(pending.tx)) # "full"
    /\ Deliver(pending, SendOutcome(Route(pending.tx)))
    /\ UNCHANGED <<nread, senders_and_handles, sender, receiver, worker, accounts, sd,
                   shutdownResult, spawned, applied, firstFatal, input, received, accountVars>>

\* Mutant of Recv: the newest transaction in the channel comes out first.
RecvNewest(queue) == queue[Len(queue)]

\* The transaction receiver.recv() yields: the oldest one in the channel.
Recv(queue) == Head(queue)

\* The worker ends: its receiver is dropped, and what the channel still holds
\* is dropped with it.
WorkerEnds(c, result) ==
    /\ worker' = [worker EXCEPT ![c] = [st |-> "done", result |-> result]]
    /\ receiver' = [receiver EXCEPT ![c] = "closed"]
    /\ inbox' = [inbox EXCEPT ![c] = <<>>]
    /\ received' = [received EXCEPT ![c] = NoItem]
    /\ firstFatal' = IF firstFatal = 0 /\ result.kind = "ProcessError" THEN c
                     ELSE firstFatal

\* Mutant of WorkerContinues: the worker stops listening after a transaction
\* and leaves what was queued behind it unprocessed.
WorkerForgetsQueue(c) ==
    /\ received' = [received EXCEPT ![c] = NoItem]
    /\ inbox' = [inbox EXCEPT ![c] = <<>>]
    /\ UNCHANGED <<worker, receiver, firstFatal>>

\* The worker goes on to its next recv().
WorkerContinues(c) ==
    /\ received' = [received EXCEPT ![c] = NoItem]
    /\ UNCHANGED <<inbox, worker, receiver, firstFatal>>

\* The worker loop: receiver.recv().await yields the oldest transaction of
\* the channel, whose slot is free from then on.
WorkerRecv(c) ==
    /\ worker[c].st = "running"
    /\ received[c] = NoItem
    /\ inbox[c] # <<>>
    /\ LET item == Recv(inbox[c]) IN
       /\ received' = [received EXCEPT ![c] = item]
       /\ inbox' = [inbox EXCEPT ![c] = SelectSeq(@, LAMBDA i : i # item)]
    /\ UNCHANGED <<pc, nread, pending, processResult, senders_and_handles, sender,
                   receiver, worker, accounts, sd, shutdownResult, spawned, sent,
                   applied, firstFatal, input, accountVars>>

\* The worker loop: the transaction processor is applied to the transaction
\* received, an error goes to the error handler and the worker returns the
\* error the handler returns.
WorkerProcess(c) ==
    /\ worker[c].st = "running"
    /\ received[c] # NoItem
    /\ LET item == received[c]
           out == process(accounts, item.tx)
       IN  /\ accounts' = out.accounts
           /\ applied' = [applied EXCEPT ![c] = Append(@, <<item.tx.client_id, item.seq>>)]
           /\ CASE out.result.kind = "Ok" -> WorkerContinues(c)
                [] out.result.kind = "Panic" -> WorkerEnds(c, out.result)
                [] OTHER ->
                     IF handle(out.result.error)
                     THEN WorkerEnds(c, out.result)
                     ELSE WorkerContinues(c)
    /\ UNCHANGED <<pc, nread, pending, processResult, senders_and_handles, sender, sd,
                   shutdownResult, spawned, sent, input, accountVars>>

\* The worker loop ends: recv() yields None (the sender is dropped and the
\* channel is empty); the task returns Ok(()).
WorkerExit(c) ==
    /\ worker[c].st = "running"
    /\ received[c] = NoItem
    /\ inbox[c] = <<>>
    /\ sender[c] = "dropped"
    /\ WorkerEnds(c, OkResult)
    /\ UNCHANGED <<pc, nread, pending, processResult, senders_and_handles, sender, accounts,
                   sd, shutdownResult, spawned, sent, applied, input, accountVars>>

\* Mutant of ShutdownNext: the handle is awaited while the sender is still
\* alive.
ShutdownNextKeepsSender(c) ==
    /\ pc = "done"
    /\ sd.pc \in {"idle", "iter"}
    /\ c \in (IF sd.pc = "idle" THEN senders_and_handles ELSE sd.left)
    /\ sd' = [pc |-> "join", cur |-> c,
              left |-> (IF sd.pc = "idle" THEN senders_and_handles ELSE sd.left) \ {c}]
    /\ UNCHANGED <<pc, nread, pending, processResult, senders_and_handles, sender, inbox,
                   receiver, worker, accounts, shutdownResult, spawned, sent, applied, firstFatal,
                   input, received, accountVars>>

\* shutdown(self): the iteration over senders_and_handles takes the next
\* entry (in the map's order, which is arbitrary) and drops its sender.
ShutdownNext(c) ==
    /\ pc = "done"
    /\ sd.pc \in {"idle", "iter"}
    /\ c \in (IF sd.pc = "idle" THEN senders_and_handles ELSE sd.left)
    /\ sender' = [sender EXCEPT ![c] = "dropped"]
    /\ sd' = [pc |-> "join", cur |-> c,
              left |-> (IF sd.pc = "idle" THEN senders_and_handles ELSE sd.left) \ {c}]
    /\ UNCHANGED <<pc, nread, pending, processResult, senders_and_handles, inbox, receiver,
                   worker, accounts, shutdownResult, spawned, sent, applied, firstFatal,
                   input, received, accountVars>>

\* What shutdown() does with a joined worker's result: "continue" with the
\* next entry or "return" the error.
OnJoined(result) == IF result.kind = "Ok" THEN "continue" ELSE "return"

\* shutdown(self): handle.await returns.  A worker error (or a join error)
\* is returned at once; the entries not yet visited are dropped with the
\* iterator, which drops their senders and detaches their tasks.
ShutdownJoin ==
    /\ sd.pc = "join"
    /\ worker[sd.cur].st = "done"
    /\ LET r == worker[sd.cur].result IN
       IF OnJoined(r) = "continue"
       THEN /\ sd' = [sd EXCEPT !.pc = "iter", !.cur = 0]
            /\ UNCHANGED <<sender, shutdownResult>>
       ELSE /\ shutdownResult' = IF r.kind = "Panic"
                                 THEN Result("FailedToShutdown", "none", NoTx)
                                 ELSE r
            /\ sender' = [c \in Clients |-> IF c \in sd.left THEN "dropped" ELSE sender[c]]
            /\ sd' = [pc |-> "done", cur |-> 0, left |-> {}]
    /\ UNCHANGED <<pc, nread, pending, processResult, senders_and_handles, inbox, receiver,
                   worker, accounts, spawned, sent, applied, firstFatal,
                   input, received, accountVars>>

\* shutdown(self): every entry has been visited; Ok(()).
ShutdownReturnsOk ==
    /\ pc = "done"
    /\ \/ sd.pc = "iter" /\ sd.left = {}
       \/ sd.pc = "idle" /\ senders_and_handles = {}
    /\ shutdownResult' = OkResult
    /\ sd' = [pc |-> "done", cur |-> 0, left |-> {}]
    /\ UNCHANGED <<pc, nread, pending, processResult, senders_and_handles, sender, inbox,
                   receiver, worker, accounts, spawned, sent, applied, firstFatal,
                   input, received, accountVars>>

Parser ==
    \/ \E record \in StreamRecords \cup BadRecords : ReadRecord(record)
    \/ ReadMalformedRow
    \/ EndOfInput
    \/ Send

Workers == \E c \in Clients : WorkerRecv(c) \/ WorkerProcess(c) \/ WorkerExit(c)

Shutdown ==
    \/ \E c \in Clients : ShutdownNext(c)
    \/ ShutdownJoin
    \/ ShutdownReturnsOk

Next == Parser \/ Workers \/ Shutdown

Spec == Init /\ [][Next]_vars

\* The pipeline under the scheduling the runtime guarantees: while a worker
\* task or the task inside shutdown() can run, one of them eventually runs.
InitFair == InitPipeline(FALSE, MaxShortRecords)

FairSpec == InitFair /\ [][Next]_vars /\ WF_vars(Workers \/ Shutdown)

(***************************************************************************)
(* SpecWithAccounts: the pipeline over an accounts map that the caller     *)
(* hands to the transaction processor, empty or already holding the        *)
(* account of client 1 locked by the chargeback of its deposit.            *)
(***************************************************************************)
\* The account of client c after deposit,c,1,1.0 / dispute,c,1, /
\* chargeback,c,1,.
LockedAccount(c) ==
    credit_debit_chargeback(
        credit_debit_dispute(deposit(ActiveAccount(c), 1, Scale).account, 1).account,
        1).account

\* The maps SimpleTransactionProcessor is constructed over.
InitialAccounts == {<<>>, [c \in {1} |-> LockedAccount(c)]}

InitWithAccounts ==
    /\ account = ActiveAccount(1)
    /\ last = [tx |-> NoTx, raw |-> "none", result |-> "none",
               before |-> ActiveAccount(1)]
    /\ steps = 0
    /\ \E rows \in Starts :
          /\ ProcessStarted(rows)
          /\ input = InputAfter(rows, FALSE, MaxRecords)
    /\ accounts \in InitialAccounts

SpecWithAccounts == InitWithAccounts /\ [][Next]_vars

(***************************************************************************)
(* CsvStreamProcessor, the single-threaded processor, and SpecRecorded:    *)
(* the pipeline with the rows it reads recorded, so that a run can be      *)
(* compared with what CsvStreamProcessor returns for the same input.       *)
(***************************************************************************)
\* CsvStreamProcessor::process from row i of the input on: each row is
\* converted and handed to the transaction processor; the first error of
\* either is returned, and Ok(()) at the end of the input.
RECURSIVE CsvProcessFrom(_, _, _)
CsvProcessFrom(accts, rows, i) ==
    IF i > Len(rows) THEN [accounts |-> accts, result |-> OkResult]
    ELSE IF rows[i] = MalformedRow
         THEN [accounts |-> accts, result |-> Result("ParsingError", "none", NoTx)]
         ELSE LET t == Converted[rows[i]] IN
              IF ~t.ok
              THEN [accounts |-> accts, result |-> Result("ParsingError", "none", NoTx)]
              ELSE LET out == process(accts, t.tx) IN
                   IF out.result.kind = "Ok"
                   THEN CsvProcessFrom(out.accounts, rows, i + 1)
                   ELSE out

\* CsvStreamProcessor::process over a transaction processor with an empty
\* accounts map: the accounts it leaves and the value it returns.
CsvStreamProcessor(rows) == CsvProcessFrom(<<>>, rows, 1)

\* AsyncCsvStreamProcessor::process under the schedule in which every worker
\* applies a transaction as soon as it is sent: the accounts, what each
\* worker that ended returned (NoResult for the others), and the value
\* process() returns.  A send to a worker that has ended fails.
RECURSIVE EagerProcessFrom(_, _, _, _)
EagerProcessFrom(accts, ended, rows, i) ==
    IF i > Len(rows)
    THEN [accounts |-> accts, ended |-> ended, result |-> OkResult]
    ELSE LET t == IF rows[i] = MalformedRow THEN [ok |-> FALSE, tx |-> NoTx]
                  ELSE Converted[rows[i]]
         IN
         IF ~t.ok
         THEN [accounts |-> accts, ended |-> ended,
               result |-> Result("ParsingError", "none", NoTx)]
         ELSE LET c == Route(t.tx) IN
              IF ended[c].kind # "none"
              THEN [accounts |-> accts, ended |-> ended,
                    result |-> Result("InternalError", "none", t.tx)]
              ELSE LET out == process(accts, t.tx)
                       returned ==
                           CASE out.result.kind = "Ok" -> FALSE
                             [] out.result.kind = "Panic" -> TRUE
                             [] OTHER -> handle(out.result.error)
                   IN  EagerProcessFrom(out.accounts,
                                        IF returned
                                        THEN [ended EXCEPT ![c] = out.result]
                                        ELSE ended,
                                        rows, i + 1)

\* The run of process() and shutdown() under that schedule, over an empty
\* accounts map: the accounts, the value process() returns and the values
\* shutdown() can return (Ok when no worker returned an error, else the
\* error of a worker that did, a panic being reported as FailedToShutdown).
EagerRun(rows) ==
    LET run == EagerProcessFrom(<<>>, [c \in Clients |-> NoResult], rows, 1)
        errors == {run.ended[c] : c \in {d \in Clients : run.ended[d].kind # "none"}}
    IN  [accounts |-> run.accounts,
         processResult |-> run.result,
         shutdownResults |->
             IF errors = {} THEN {OkResult}
             ELSE {IF r.kind = "Panic" THEN Result("FailedToShutdown", "none", NoTx)
                   ELSE r : r \in errors}]

InitRecorded == InitPipeline(TRUE, MaxShortRecords)

SpecRecorded == InitRecorded /\ [][Next]_vars

(***************************************************************************)
(* The account summary (model/account_summary.rs, model/amount.rs) that    *)
(* process_file in main.rs builds for every account of the map once        *)
(* process() and shutdown() have both returned Ok.                         *)
(***************************************************************************)
\* Amount4DecimalBased::to_str: the amount over 10_000 as f64, formatted
\* with four fractional digits.  (Exact while the amount has fewer than 15
\* decimal digits, which covers the amounts of the model.)
to_str(amount) ==
    LET units == IF amount < 0 THEN 0 - amount ELSE amount IN
    AmountLiteral(TRUE, amount < 0, units \div Scale,
                  [i \in 1..4 |-> ((units % Scale) \div Pow(10, 4 - i)) % 10])

\* Mutant of AccountSummaryFrom: the total leaves the held funds out.
AccountSummaryTotalAvailable(acct) ==
    [client_id |-> acct.client_id,
     available |-> to_str(acct.available),
     held |-> to_str(acct.held),
     total |-> to_str(acct.available),
     locked |-> acct.status = "Locked"]

\* impl From<&Account> for AccountSummary
AccountSummaryFrom(acct) ==
    LET total == acct.available + acct.held IN
    [client_id |-> acct.client_id,
     available |-> to_str(acct.available),
     held |-> to_str(acct.held),
     total |-> to_str(total),
     locked |-> acct.status = "Locked"]

\* process_file: both calls were unwrapped, so the summaries exist only
\* when process() and shutdown() returned Ok.
SummariesEmitted == processResult.kind = "Ok" /\ shutdownResult.kind = "Ok"

\* process_file: one summary for every entry of the accounts map.
summaries == [c \in DOMAIN accounts |-> AccountSummaryFrom(accounts[c])]

\* Amounts the serialisation test of amount.rs renders, and their negatives.
RenderedAmounts ==
    LET cases == {0, 1, 10, 100, 1000, Scale, Scale + 100, 10 * Scale + 100}
    IN  cases \cup {0 - a : a \in cases}

(***************************************************************************)
(* Properties.                                                             *)
(***************************************************************************)
RECURSIVE SumOver(_, _)
SumOver(f, S) ==
    IF S = {} THEN 0
    ELSE LET c == CHOOSE x \in S : TRUE IN f[c] + SumOver(f, S \ {c})

Ended(c) == worker[c].st = "done"
EndedWith(c, kind) == Ended(c) /\ worker[c].result.kind = kind
FatalErrors == {"AccountLocked", "IncompatibleTransaction"}

\* Number of transactions the worker of client c has taken off its channel.
Taken(c) == Len(applied[c]) + (IF received[c] = NoItem THEN 0 ELSE 1)

\* C1: per-client FIFO.  The k-th transaction a worker hands to the
\* transaction processor is the k-th transaction dispatched to its client's
\* channel, the one recv() has returned to it is the next one, and what
\* waits in the channel waits in dispatch order behind it, under every
\* interleaving of process() and the workers.
C1_PerClientFifo ==
    \A c \in Clients :
        /\ \A i \in 1..Len(applied[c]) : applied[c][i][2] = i
        /\ Taken(c) <= sent[c]
        /\ received[c] # NoItem => received[c].seq = Len(applied[c]) + 1
        /\ \A i \in 1..Len(inbox[c]) : inbox[c][i].seq = Taken(c) + i

\* C1 witness: a worker has applied two transactions of its client while the
\* other client's worker has applied one and process() is still dispatching.
C1_Witness ==
    /\ pc # "done"
    /\ \E c \in Clients : \E d \in Clients \ {c} :
          /\ Len(applied[c]) >= 2
          /\ Len(applied[d]) >= 1
          /\ inbox[c] # <<>>

\* C2 as stated: shutdown() returns Err(ProcessError) if and only if some
\* worker ended with an AccountLocked or IncompatibleTransaction error.
C2_Original ==
    shutdownResult.kind # "none" =>
        (shutdownResult.kind = "ProcessError"
            <=> \E c \in Clients : EndedWith(c, "ProcessError"))

\* C2 amended: a worker ends with an error only for AccountLocked or
\* IncompatibleTransaction (InsufficientFund and NoTransactionFound are
\* swallowed); shutdown() returns Ok exactly when every worker ended Ok, it
\* returns ProcessError only with the error a worker ended with, and when a
\* worker ended with such an error it returns ProcessError or, if a panicked
\* worker was joined first, FailedToShutdown.
C2_ShutdownError ==
    /\ \A c \in Clients :
          EndedWith(c, "ProcessError") => worker[c].result.error \in FatalErrors
    /\ shutdownResult.kind # "none" =>
          /\ shutdownResult.kind \in {"Ok", "ProcessError", "FailedToShutdown"}
          /\ shutdownResult.kind = "Ok"
                <=> \A c \in senders_and_handles : EndedWith(c, "Ok")
          /\ shutdownResult.kind = "ProcessError" =>
                \E c \in Clients : Ended(c) /\ worker[c].result = shutdownResult
          /\ shutdownResult.kind = "FailedToShutdown" =>
                \E c \in Clients : EndedWith(c, "Panic")
          /\ (\E c \in Clients : EndedWith(c, "ProcessError")) =>
                shutdownResult.kind \in {"ProcessError", "FailedToShutdown"}

\* C2 witness: shutdown() returned a worker's ProcessError while the other
\* client's worker, all of whose events were rejected with swallowed errors,
\* ended Ok.
C2_Witness ==
    /\ shutdownResult.kind = "ProcessError"
    /\ \E c \in Clients :
          /\ EndedWith(c, "Ok")
          /\ Len(applied[c]) >= 2
          /\ accounts[c] = ActiveAccount(c)

\* C3 as stated: after a client's worker has ended with a fatal error,
\* process() still dispatches every remaining record and returns Ok; it does
\* not end with a failed dispatch.
C3_FailedWorkerDoesNotCancel ==
    (\E c \in Clients : EndedWith(c, "ProcessError")) =>
        processResult.kind # "InternalError"

\* C4 as stated: when shutdown() has returned, with Ok or with Err, every
\* worker task has terminated and every inbox is closed and empty.
C4_Quiescence ==
    shutdownResult.kind # "none" =>
        \A c \in senders_and_handles :
            Ended(c) /\ receiver[c] = "closed" /\ inbox[c] = <<>>

\* C5: no loss, no duplication.  When process() has returned Ok and
\* shutdown() has returned Ok, every record read was sent to a channel, every
\* channel is empty, and each worker handed the transaction processor exactly
\* the transactions sent to its client, each once, all of its own client.
C5_NoLossNoDuplication ==
    (processResult.kind = "Ok" /\ shutdownResult.kind = "Ok") =>
        /\ SumOver(sent, Clients) = nread
        /\ \A c \in Clients :
              /\ inbox[c] = <<>>
              /\ received[c] = NoItem
              /\ Len(applied[c]) = sent[c]
              /\ \A i \in 1..Len(applied[c]) : applied[c][i] = <<c, i>>

\* C5 witness: both calls returned Ok after MaxRecords records, spread over
\* both clients, one of which had several events.
C5_Witness ==
    /\ processResult.kind = "Ok"
    /\ shutdownResult.kind = "Ok"
    /\ nread = MaxRecords
    /\ \A c \in Clients : sent[c] >= 1
    /\ \E c \in Clients : sent[c] >= 3

\* C6: drain terminates.  Under fair scheduling, once process() has returned
\* shutdown() returns, whatever the channels hold and whichever workers have
\* already failed.
C6_DrainTerminates == (pc = "done") ~> (shutdownResult.kind # "none")

\* C6 witness: shutdown() awaits a worker whose channel is full while another
\* worker has already failed.
C6_Witness ==
    /\ sd.pc = "join"
    /\ worker[sd.cur].st = "running"
    /\ Len(inbox[sd.cur]) = InboxCapacity
    /\ \E c \in Clients : EndedWith(c, "ProcessError")

\* C7: single writer per account.  A client has at most one channel and
\* worker, created on its first dispatch and never replaced; a channel only
\* carries, and a worker only applies, transactions of its own client; an
\* account exists only once its client's worker has applied a transaction.
C7_SingleWriter ==
    \A c \in Clients :
        /\ spawned[c] <= 1
        /\ spawned[c] = 1 <=> c \in senders_and_handles
        /\ sent[c] > 0 => spawned[c] = 1
        /\ \A i \in 1..Len(inbox[c]) : inbox[c][i].tx.client_id = c
        /\ received[c] # NoItem => received[c].tx.client_id = c
        /\ \A i \in 1..Len(applied[c]) : applied[c][i][1] = c
        /\ c \in DOMAIN accounts => applied[c] # <<>>

\* C7 witness: both clients have a worker that applied several transactions
\* to its account.
C7_Witness ==
    \A c \in Clients :
        /\ spawned[c] = 1
        /\ Len(applied[c]) >= 2
        /\ c \in DOMAIN accounts

\* What the last event did to deposit t: TRUE when it is one of the allowed
\* moves by the matching successful event.
DepositMove(t, from, to, kind) ==
    /\ last.before.deposits[t].status = from
    /\ account.deposits[t].status = to
    /\ last.tx.kind = kind
    /\ last.tx.transaction_id = t
    /\ last.result = "Ok"

\* C8: deposit lifecycle.  Over any sequence of events a recorded deposit is
\* never removed, its amount never changes, and its status changes only by
\* Accepted -> Held (successful Dispute), Held -> Resolved (successful
\* Resolve) or Held -> ChargedBack (successful Chargeback): Resolved and
\* ChargedBack are terminal.
C8_DepositLifecycle ==
    \A t \in DOMAIN last.before.deposits :
        /\ t \in DOMAIN account.deposits
        /\ account.deposits[t].amount = last.before.deposits[t].amount
        /\ \/ account.deposits[t].status = last.before.deposits[t].status
           \/ DepositMove(t, "Accepted", "Held", "Dispute")
           \/ DepositMove(t, "Held", "Resolved", "Resolve")
           \/ DepositMove(t, "Held", "ChargedBack", "ChargeBack")

\* C8 witness: one deposit has been resolved and was then disputed again
\* without effect, next to another recorded deposit.
C8_Witness ==
    /\ last.tx.kind = "Dispute"
    /\ last.tx.transaction_id \in DOMAIN account.deposits
    /\ account.deposits[last.tx.transaction_id].status = "Resolved"
    /\ Cardinality(DOMAIN account.deposits) = 2

\* C9: in a locked account no transactor changes anything, whatever the
\* event and whatever it returns.
C9_LockedAccountFrame ==
    last.before.status = "Locked" => account = last.before

\* C9 witness: a withdrawal the balance would cover was applied to a locked
\* account.
C9_Witness ==
    /\ last.before.status = "Locked"
    /\ last.tx.kind = "Withdrawal"
    /\ last.tx.amount > 0
    /\ last.before.available >= last.tx.amount

\* C10 as stated: only Chargeback locks, and Locked is absorbing.  The status
\* goes from Active to Locked only in a successful Chargeback of a Held
\* deposit, and a Locked account is Locked after every later event.
C10_OnlyChargebackLocks ==
    /\ (last.before.status = "Active" /\ account.status = "Locked") =>
          /\ last.tx.kind = "ChargeBack"
          /\ last.result = "Ok"
          /\ last.tx.transaction_id \in DOMAIN last.before.deposits
          /\ last.before.deposits[last.tx.transaction_id].status = "Held"
    /\ last.before.status = "Locked" => account.status = "Locked"


TransactorErrors ==
    {"AccountLocked", "InsufficientFund", "NoTransactionFound", "NonDisputedTransaction"}

\* C11: failure atomicity.  Whenever a transactor returns an error
\* (AccountLocked, InsufficientFund, NoTransactionFound,
\* NonDisputedTransaction) the account is exactly as it was before the call:
\* status, available, held and both ledgers.
C11_FailureAtomicity ==
    last.raw \in TransactorErrors => account = last.before

\* C11 witness: a withdrawal was refused for insufficient funds on an account
\* that holds a deposit and a withdrawal.
C11_Witness ==
    /\ last.raw = "InsufficientFund"
    /\ last.before.available > 0
    /\ DOMAIN last.before.deposits # {}
    /\ DOMAIN last.before.withdrawals # {}

\* The sum of the amounts of the ledger entries with the given keys.
RECURSIVE SumAmounts(_, _)
SumAmounts(ledger, keys) ==
    IF keys = {} THEN 0
    ELSE LET k == CHOOSE x \in keys : TRUE IN
         ledger[k].amount + SumAmounts(ledger, keys \ {k})

LedgerTotal(acct) ==
    SumAmounts(acct.deposits,
               {t \in DOMAIN acct.deposits : acct.deposits[t].status # "ChargedBack"})
    - SumAmounts(acct.withdrawals, DOMAIN acct.withdrawals)

\* C12 as stated: after any sequence of events on an initially empty account,
\* available + held equals the sum of the amounts of the recorded deposits
\* that are not ChargedBack minus the sum of the amounts of the recorded
\* withdrawals, and Dispute and Resolve leave available + held unchanged.
C12_LedgerTotalConsistency ==
    /\ account.available + account.held = LedgerTotal(account)
    /\ last.tx.kind \in {"Dispute", "Resolve"} =>
          account.available + account.held = last.before.available + last.before.held

\* C13 as stated: held >= 0 at rest.  After every completed event of a
\* sequence whose deposits and withdrawals carry non-negative amounts, held
\* is >= 0.
C13_HeldNonNegative ==
    (/\ \A t \in DOMAIN account.deposits : account.deposits[t].amount >= 0
     /\ \A t \in DOMAIN account.withdrawals : account.withdrawals[t].amount >= 0) =>
        account.held >= 0


\* The second of two calls in immediate succession leaves the account as the
\* first left it, and returns Duplicate when the first returned Transacted.
Idempotent(first, second) ==
    /\ second.account = first.account
    /\ first.result = "Transacted" => second.result = "Duplicate"

\* C14: idempotence of Deposit, Dispute, Resolve and Chargeback.  Applying
\* the event that was just applied once more leaves the account as the first
\* application left it, and when the first application returned Transacted
\* the second returns Duplicate: for the event through the account
\* transactor, and for CreditDisputer, CreditResolver and CreditBackcharger
\* called twice on the account the event met.
C14_Idempotence ==
    LET id == last.tx.transaction_id IN
    /\ last.tx.kind \in {"Deposit", "Dispute", "Resolve", "ChargeBack"} =>
          Idempotent(Outcome(account, last.raw), Dispatch(account, last.tx))
    /\ last.tx.kind = "Dispute" =>
          Idempotent(dispute(last.before, id),
                     dispute(dispute(last.before, id).account, id))
    /\ last.tx.kind = "Resolve" =>
          Idempotent(resolve(last.before, id),
                     resolve(resolve(last.before, id).account, id))
    /\ last.tx.kind = "ChargeBack" =>
          Idempotent(chargeback(last.before, id),
                     chargeback(chargeback(last.before, id).account, id))

\* C14 witness: a deposit has just transacted next to another recorded
\* deposit and its replay is a Duplicate, and the deposit recorded before is
\* Held, so that a Resolve or a Chargeback of it transacts.
C14_Witness ==
    /\ last.tx.kind = "Deposit"
    /\ last.raw = "Transacted"
    /\ last.tx.amount > 0
    /\ Cardinality(DOMAIN account.deposits) = 2
    /\ Dispatch(account, last.tx) = Outcome(account, "Duplicate")
    /\ \E t \in DOMAIN account.deposits :
          /\ account.deposits[t].status = "Held"
          /\ chargeback(account, t).result = "Transacted"

\* C15 as stated: a Withdrawal whose tx id is already in the withdrawals
\* ledger with the same amount returns Duplicate and leaves the account
\* (available and the ledger) unchanged.
C15_ReplayedWithdrawal ==
    (/\ last.tx.kind = "Withdrawal"
     /\ last.tx.transaction_id \in DOMAIN last.before.withdrawals
     /\ last.before.withdrawals[last.tx.transaction_id].amount = last.tx.amount
     /\ last.before.status = "Active") =>
        /\ last.raw = "Duplicate"
        /\ account = last.before


\* C16: Dispute then Resolve is a round trip.  On an active account with d
\* Accepted, CreditDisputer's Dispute(d) and then CreditResolver's Resolve(d)
\* both transact and give the account before the dispute with d Resolved
\* (available and held at their pre-dispute values), and a Dispute of a
\* Resolved deposit, then or at any later time, returns Duplicate and changes
\* nothing.  The transactors the account transactor dispatches to leave the
\* same accounts.
C16_DisputeResolveRoundTrip ==
    LET d == last.tx.transaction_id IN
    /\ (/\ last.tx.kind = "Dispute"
        /\ last.before.status = "Active"
        /\ d \in DOMAIN last.before.deposits
        /\ last.before.deposits[d].status = "Accepted") =>
          LET disputed == dispute(last.before, d)
              r == resolve(disputed.account, d)
          IN
          /\ disputed.result = "Transacted"
          /\ r.result = "Transacted"
          /\ r.account.available = last.before.available
          /\ r.account.held = last.before.held
          /\ r.account = [last.before EXCEPT !.deposits[d].status = "Resolved"]
          /\ dispute(r.account, d) = Outcome(r.account, "Duplicate")
          /\ last.result = "Ok"
          /\ account = disputed.account
          /\ transact(account, Transaction(1, d, "Resolve", NoAmount))
                = Outcome(r.account, "Ok")
    /\ (/\ last.tx.kind = "Dispute"
        /\ d \in DOMAIN last.before.deposits
        /\ last.before.deposits[d].status = "Resolved") =>
          /\ dispute(last.before, d) = Outcome(last.before, "Duplicate")
          /\ last.result = "Ok"
          /\ account = last.before

\* C16 witness: a deposit was disputed and resolved, a withdrawal followed,
\* and a later dispute of the deposit has changed nothing.
C16_Witness ==
    /\ last.tx.kind = "Dispute"
    /\ last.result = "Ok"
    /\ last.tx.transaction_id \in DOMAIN account.deposits
    /\ account.deposits[last.tx.transaction_id].status = "Resolved"
    /\ account.deposits[last.tx.transaction_id].amount > 0
    /\ DOMAIN account.withdrawals # {}
    /\ account.held = 0

\* C17: chargeback effect.  Chargeback of a Held deposit on an active account
\* returns Transacted from CreditBackcharger, decreases held by exactly the
\* deposit's amount, leaves available, the withdrawals and every other
\* deposit unchanged, sets the deposit to ChargedBack and the account status
\* to Locked; the account transactor succeeds with the same account.
C17_ChargebackEffect ==
    LET d == last.tx.transaction_id IN
    (/\ last.tx.kind = "ChargeBack"
     /\ last.before.status = "Active"
     /\ d \in DOMAIN last.before.deposits
     /\ last.before.deposits[d].status = "Held") =>
        /\ chargeback(last.before, d) = Outcome(account, "Transacted")
        /\ last.result = "Ok"
        /\ account.held = last.before.held - last.before.deposits[d].amount
        /\ account.available = last.before.available
        /\ account.withdrawals = last.before.withdrawals
        /\ account.deposits = [last.before.deposits EXCEPT ![d].status = "ChargedBack"]
        /\ account.status = "Locked"
        /\ account.client_id = last.before.client_id

\* C17 witness: a Held deposit of a positive amount was charged back on an
\* account with another deposit and a withdrawal.
C17_Witness ==
    /\ last.tx.kind = "ChargeBack"
    /\ last.result = "Ok"
    /\ last.before.status = "Active"
    /\ last.tx.transaction_id \in DOMAIN last.before.deposits
    /\ last.before.deposits[last.tx.transaction_id].status = "Held"
    /\ last.before.deposits[last.tx.transaction_id].amount > 0
    /\ Cardinality(DOMAIN account.deposits) = 2
    /\ DOMAIN account.withdrawals # {}


\* C18: idempotent classification masks the lock check.  On a Locked account
\* a Dispute of a deposit that is Held, Resolved or ChargedBack, a Resolve of
\* a Resolved deposit and a Chargeback of a ChargedBack deposit return
\* Duplicate from CreditDisputer, CreditResolver and CreditBackcharger, never
\* AccountLocked; the account transactor returns a success, and nothing
\* changes.
C18_DuplicateMasksLock ==
    LET d == last.tx.transaction_id IN
    /\ (/\ last.before.status = "Locked"
        /\ d \in DOMAIN last.before.deposits
        /\ \/ /\ last.tx.kind = "Dispute"
              /\ last.before.deposits[d].status \in {"Held", "Resolved", "ChargedBack"}
           \/ /\ last.tx.kind = "Resolve"
              /\ last.before.deposits[d].status = "Resolved"
           \/ /\ last.tx.kind = "ChargeBack"
              /\ last.before.deposits[d].status = "ChargedBack") =>
          /\ last.result = "Ok"
          /\ account = last.before
          /\ last.tx.kind = "Dispute" =>
                dispute(last.before, d) = Outcome(last.before, "Duplicate")
          /\ last.tx.kind = "Resolve" =>
                resolve(last.before, d) = Outcome(last.before, "Duplicate")
          /\ last.tx.kind = "ChargeBack" =>
                chargeback(last.before, d) = Outcome(last.before, "Duplicate")

\* C18 witness: on an account a chargeback had locked, a Resolve of a
\* deposit resolved before the lock was replayed.
C18_Witness ==
    /\ last.before.status = "Locked"
    /\ last.tx.kind = "Resolve"
    /\ last.tx.transaction_id \in DOMAIN last.before.deposits
    /\ last.before.deposits[last.tx.transaction_id].status = "Resolved"
    /\ last.result = "Ok"


\* C19 as stated: through the account transactor, on a Locked account a
\* Dispute, Resolve or Chargeback naming a tx id with no matching deposit
\* returns AccountLocked, a Resolve or Chargeback of a deposit in a
\* non-disputed status returns AccountLocked, and NoTransactionFound and
\* NonDisputedTransaction are returned only for Active accounts.
C19_LockedPrecedence ==
    LET d == last.tx.transaction_id IN
    /\ (/\ last.before.status = "Locked"
        /\ last.tx.kind \in {"Dispute", "Resolve", "ChargeBack"}
        /\ d \notin DOMAIN last.before.deposits) =>
          last.raw = "AccountLocked"
    /\ (/\ last.before.status = "Locked"
        /\ d \in DOMAIN last.before.deposits
        /\ \/ /\ last.tx.kind = "Resolve"
              /\ last.before.deposits[d].status \in {"Accepted", "ChargedBack"}
           \/ /\ last.tx.kind = "ChargeBack"
              /\ last.before.deposits[d].status \in {"Accepted", "Resolved"}) =>
          last.raw = "AccountLocked"
    /\ last.raw \in {"NoTransactionFound", "NonDisputedTransaction"} =>
          last.before.status = "Active"


\* C20 as stated: a Deposit whose tx id is already among the account's
\* deposits with the same amount returns Duplicate and changes nothing,
\* whatever the account's status, Locked included; a Deposit returns
\* AccountLocked only with a new tx id on a Locked account.
C20_DepositCheckOrder ==
    LET d == last.tx.transaction_id IN
    last.tx.kind = "Deposit" =>
        /\ (/\ d \in DOMAIN last.before.deposits
            /\ last.before.deposits[d].amount = last.tx.amount) =>
              /\ last.raw = "Duplicate"
              /\ account = last.before
        /\ last.raw = "AccountLocked" =>
              /\ last.before.status = "Locked"
              /\ d \notin DOMAIN last.before.deposits


\* C21 as stated: a Withdrawal on an active account fails with
\* InsufficientFund and changes nothing if amount > 0 and available < amount;
\* otherwise (amount = 0 with any available balance included) it succeeds,
\* decreases available by exactly the amount, leaves held and the deposits
\* unchanged and records the withdrawal with status Accepted.
C21_WithdrawalOnActive ==
    LET w == last.tx.transaction_id
        amount == last.tx.amount
    IN
    (last.tx.kind = "Withdrawal" /\ last.before.status = "Active") =>
        IF amount > 0 /\ last.before.available < amount
        THEN /\ last.raw = "InsufficientFund"
             /\ account = last.before
        ELSE /\ last.raw = "Ok"
             /\ account.available = last.before.available - amount
             /\ account.held = last.before.held
             /\ account.deposits = last.before.deposits
             /\ w \in DOMAIN account.withdrawals
             /\ account.withdrawals[w] = [amount |-> amount, status |-> "Accepted"]


\* The worker of client c applies a transaction in this step: the one recv()
\* has returned to it.
Applies(c) == applied'[c] # applied[c]
Applying(c) == received[c].tx

\* The account of client c as the transaction processor sees it: the account
\* in the map, or the one it creates.
AccountOf(c) == IF c \in DOMAIN accounts THEN accounts[c] ELSE ActiveAccount(c)

\* tx is a Resolve or Chargeback of a recorded deposit of acct that is not
\* under dispute.
NonDisputed(acct, tx) ==
    /\ tx.transaction_id \in DOMAIN acct.deposits
    /\ \/ /\ tx.kind = "Resolve"
          /\ acct.deposits[tx.transaction_id].status \in {"Accepted", "ChargedBack"}
       \/ /\ tx.kind = "ChargeBack"
          /\ acct.deposits[tx.transaction_id].status \in {"Accepted", "Resolved"}

Failed(c) == Ended(c) /\ worker[c].result.kind # "Ok"

\* A Resolve or Chargeback of a non-disputed deposit, applied by the worker
\* to an active account, changes no account and ends the worker with
\* IncompatibleTransaction tagged with the transaction.
RejectsNonDisputed ==
    \A c \in Clients :
        (/\ Applies(c)
         /\ AccountOf(c).status = "Active"
         /\ NonDisputed(AccountOf(c), Applying(c))) =>
            /\ accounts' = accounts
            /\ worker'[c] = [st |-> "done",
                             result |-> Result("ProcessError", "IncompatibleTransaction",
                                               Applying(c))]

\* An active account with one recorded deposit in the given status, as the
\* cases of the resolver's and the backcharger's tests build it.
ActiveWithDeposit(status) ==
    [ActiveAccount(1) EXCEPT
        !.available = 7,
        !.deposits = Insert(<<>>, 1, [amount |-> 3, status |-> status])]

\* For a deposit in each status that is not under dispute (Accepted or
\* ChargedBack for Resolve, Accepted or Resolved for Chargeback) on an active
\* account, the account transactor returns IncompatibleTransaction with the
\* account unchanged, the transaction processor returns that error tagged
\* with the transaction and leaves the map unchanged, and the error handler
\* ends the worker with it.
RejectedInEveryStatus ==
    \A status \in {"Accepted", "Resolved", "ChargedBack"} :
        \A kind \in {"Resolve", "ChargeBack"} :
            LET acct == ActiveWithDeposit(status)
                tx == Transaction(1, 1, kind, NoAmount)
                map == [c \in {1} |-> acct]
            IN  /\ NonDisputed(acct, tx) <=>
                      \/ kind = "Resolve" /\ status \in {"Accepted", "ChargedBack"}
                      \/ kind = "ChargeBack" /\ status \in {"Accepted", "Resolved"}
                /\ NonDisputed(acct, tx) =>
                      /\ transact(acct, tx) = Outcome(acct, "IncompatibleTransaction")
                      /\ process(map, tx)
                            = [accounts |-> map,
                               result |-> Result("ProcessError",
                                                 "IncompatibleTransaction", tx)]
                      /\ handle("IncompatibleTransaction")

\* C22 as stated: once a worker has rejected a Resolve or Chargeback of a
\* non-disputed deposit as an incompatible transaction, what shutdown()
\* returns is that error tagged with the offending transaction.
C22_Original ==
    \A c \in Clients :
        (/\ EndedWith(c, "ProcessError")
         /\ worker[c].result.error = "IncompatibleTransaction"
         /\ shutdownResult.kind # "none") =>
            shutdownResult = worker[c].result

\* C22 amended: a Resolve or Chargeback of a deposit that is not under
\* dispute (Accepted or ChargedBack for Resolve, Accepted or Resolved for
\* Chargeback), applied to an active account, is rejected as an incompatible
\* transaction, leaves the accounts unchanged and ends the client's worker
\* with that error tagged with the offending transaction; shutdown() then
\* returns an error, which is that error whenever no other client's worker
\* has failed.
C22_IncompatibleTransaction ==
    /\ []RejectedInEveryStatus
    /\ [][RejectsNonDisputed]_vars
    /\ [](\A c \in Clients :
            (/\ EndedWith(c, "ProcessError")
             /\ worker[c].result.error = "IncompatibleTransaction"
             /\ shutdownResult.kind # "none") =>
                /\ shutdownResult.kind \in {"ProcessError", "FailedToShutdown"}
                /\ (\A d \in Clients \ {c} : ~Failed(d)) =>
                      shutdownResult = worker[c].result)

\* C22 witness: shutdown() has returned the IncompatibleTransaction error a
\* worker ended with on a Chargeback of a resolved deposit.
C22_Witness ==
    \E c \in Clients :
        /\ EndedWith(c, "ProcessError")
        /\ worker[c].result.error = "IncompatibleTransaction"
        /\ worker[c].result.tx.kind = "ChargeBack"
        /\ accounts[c].status = "Active"
        /\ accounts[c].deposits[worker[c].result.tx.transaction_id].status = "Resolved"
        /\ shutdownResult = worker[c].result


\* What the transaction processor returns for the transaction the worker of
\* client c applies in this step.
Returned(c) == process(accounts, Applying(c)).result

\* Only a running worker applies a transaction.  When the transaction is
\* rejected with AccountLocked or IncompatibleTransaction the worker ends at
\* once with that error carrying that transaction, and the account is
\* unchanged; when it succeeds or is rejected with another error the worker
\* stays as it is.  A Deposit or Withdrawal applied to a Locked account is
\* rejected with AccountLocked.
StopsAtFirstFatal ==
    \A c \in Clients :
        Applies(c) =>
            /\ worker[c].st = "running"
            /\ Applying(c).client_id = c
            /\ IF Returned(c).kind = "ProcessError" /\ Returned(c).error \in FatalErrors
               THEN /\ worker'[c] = [st |-> "done", result |-> Returned(c)]
                    /\ Returned(c).tx = Applying(c)
                    /\ accounts' = accounts
               ELSE Returned(c).kind # "Panic" => worker'[c] = worker[c]
            /\ (/\ AccountOf(c).status = "Locked"
                /\ Applying(c).kind \in {"Deposit", "Withdrawal"}) =>
                  /\ Returned(c) = Result("ProcessError", "AccountLocked", Applying(c))
                  /\ worker'[c].result = Returned(c)

\* C23 as stated: once a Chargeback has locked a client's account and the
\* worker has rejected the client's next Deposit or Withdrawal, what
\* shutdown() returns is AccountLocked carrying that Deposit or Withdrawal.
C23_Original ==
    \A c \in Clients :
        (/\ EndedWith(c, "ProcessError")
         /\ worker[c].result.error = "AccountLocked"
         /\ worker[c].result.tx.kind \in {"Deposit", "Withdrawal"}
         /\ shutdownResult.kind # "none") =>
            shutdownResult = worker[c].result

\* C23 amended: the error a worker returns is the error of the earliest
\* event of its client that is rejected with AccountLocked or
\* IncompatibleTransaction, carrying exactly that transaction, and the
\* account is as that event found it; a Deposit or Withdrawal applied after a
\* Chargeback has locked the account ends the worker with AccountLocked
\* carrying it.  shutdown() then returns an error, which is the worker's
\* error whenever no other client's worker has failed.
C23_FirstFatalError ==
    /\ [][StopsAtFirstFatal]_vars
    /\ [](\A c \in Clients :
            EndedWith(c, "ProcessError") =>
                /\ worker[c].result.error \in FatalErrors
                /\ worker[c].result.tx.client_id = c
                /\ process(accounts, worker[c].result.tx)
                      = [accounts |-> accounts, result |-> worker[c].result]
                /\ shutdownResult.kind # "none" =>
                      /\ shutdownResult.kind \in {"ProcessError", "FailedToShutdown"}
                      /\ (\A d \in Clients \ {c} : ~Failed(d)) =>
                            shutdownResult = worker[c].result)

\* C23 witness: a worker has applied a deposit, its dispute, its chargeback
\* and a further Deposit, and shutdown() has returned AccountLocked carrying
\* that Deposit.
C23_Witness ==
    \E c \in Clients :
        /\ shutdownResult = worker[c].result
        /\ shutdownResult.error = "AccountLocked"
        /\ shutdownResult.tx.kind = "Deposit"
        /\ accounts[c].status = "Locked"
        /\ accounts[c].deposits[1].status = "ChargedBack"
        /\ Len(applied[c]) = 4


\* C24 as stated: first fatal error wins.  When shutdown() returns a worker's
\* error, it is the error of the worker that failed first (the one raised by
\* the earliest-applied failing event), not the error of another client.
C24_FirstFatalErrorWins ==
    shutdownResult.kind = "ProcessError" =>
        /\ firstFatal \in Clients
        /\ shutdownResult = worker[firstFatal].result


\* C25 as stated: for every input the asynchronous process() reads to its
\* end, what shutdown() then returns is what the single-threaded
\* CsvStreamProcessor returns for the same input (Ok, or the same error
\* carrying the same transaction), and both leave the same accounts.
C25_SyncAsyncEquivalence ==
    (processResult.kind = "Ok" /\ shutdownResult.kind # "none") =>
        /\ CsvStreamProcessor(input.rows).result = shutdownResult
        /\ CsvStreamProcessor(input.rows).accounts = accounts


\* A row that cannot be parsed: it does not deserialize, or it is a deposit
\* or withdrawal with no amount or with an amount that is no number.
Unparseable(row) ==
    \/ row = MalformedRow
    \/ /\ row.txn_type \in {"deposit", "withdrawal"}
       /\ \/ ~row.optional_amount.some
          \/ row.optional_amount.lit.kind = "invalid"

\* C26: a parse failure aborts the stream without corrupting it.  A row that
\* cannot be parsed is the last row process() reads and process() returns
\* ParsingError at it, and only at such a row; every row before it has been
\* dispatched and none after it; and when shutdown() then returns and no
\* worker has failed, it returns Ok and every dispatched row has been applied
\* by its client's worker.
C26_ParseFailureAborts ==
    LET rows == input.rows
        n == Len(rows)
    IN
    /\ \A i \in 1..n :
          Unparseable(rows[i]) =>
              /\ i = n
              /\ pc = "done"
              /\ processResult = Result("ParsingError", "none", NoTx)
    /\ processResult.kind = "ParsingError" =>
          /\ n >= 1
          /\ Unparseable(rows[n])
          /\ SumOver(sent, Clients) = n - 1
          /\ pending = NoItem
    /\ (/\ processResult.kind = "ParsingError"
        /\ shutdownResult.kind # "none"
        /\ \A c \in Clients : ~Failed(c)) =>
          /\ shutdownResult = OkResult
          /\ \A c \in Clients : inbox[c] = <<>> /\ Len(applied[c]) = sent[c]

\* C26 witness: after rows of both clients, a deposit row without an amount
\* made process() return ParsingError; shutdown() returned Ok and the workers
\* have applied every earlier row.
C26_Witness ==
    /\ processResult.kind = "ParsingError"
    /\ Len(input.rows) = MaxShortRecords
    /\ input.rows[MaxShortRecords] = TransactionRecord("deposit", 1, 1, None)
    /\ shutdownResult = OkResult
    /\ \A c \in Clients : sent[c] >= 1 /\ Len(applied[c]) = sent[c]


\* The first event of a client is applied to an account created Active with
\* a zero snapshot and empty ledgers: a Deposit leaves that account credited
\* with the deposit recorded Accepted, a Withdrawal of a positive amount, a
\* Dispute, a Resolve or a Chargeback is rejected and leaves it as created.
CreatesActiveAccount ==
    \A c \in Clients :
        (Applies(c) /\ c \notin DOMAIN accounts) =>
            LET tx == Applying(c) IN
            /\ DOMAIN accounts' = DOMAIN accounts \cup {c}
            /\ \A d \in DOMAIN accounts : accounts'[d] = accounts[d]
            /\ tx.kind = "Deposit" =>
                  accounts'[c] =
                      [client_id |-> c, status |-> "Active",
                       available |-> tx.amount, held |-> 0,
                       deposits |-> [t \in {tx.transaction_id} |->
                                        [amount |-> tx.amount, status |-> "Accepted"]],
                       withdrawals |-> <<>>]
            /\ (tx.kind # "Deposit" /\ ~(tx.kind = "Withdrawal" /\ tx.amount <= 0)) =>
                  accounts'[c] =
                      [client_id |-> c, status |-> "Active", available |-> 0,
                       held |-> 0, deposits |-> <<>>, withdrawals |-> <<>>]

\* C27: account creation.  An account is created Active with zero available,
\* zero held and empty ledgers before the first event of its client is
\* applied, and after a run in which process() and shutdown() both return Ok
\* the accounts map holds exactly one account per distinct client id of the
\* input, including clients all of whose events were rejected.
C27_AccountCreation ==
    /\ [][CreatesActiveAccount]_vars
    /\ [](/\ \A c \in DOMAIN accounts : accounts[c].client_id = c
          /\ (processResult.kind = "Ok" /\ shutdownResult.kind = "Ok") =>
                DOMAIN accounts
                    = {input.rows[i].client_id : i \in 1..Len(input.rows)})

\* C27 witness: both calls returned Ok and the map holds the account of a
\* client two of whose events were read and all rejected, as it was created,
\* next to the account of a client with an accepted deposit.
C27_Witness ==
    /\ processResult.kind = "Ok"
    /\ shutdownResult.kind = "Ok"
    /\ \E c \in Clients : \E d \in Clients \ {c} :
          /\ sent[c] >= 2
          /\ accounts[c] = ActiveAccount(c)
          /\ d \in DOMAIN accounts
          /\ accounts[d].available > 0


\* C28 as stated: Dispute, Resolve and Chargeback look only at deposits.  On
\* an active account an event of one of these kinds whose tx id is not among
\* the account's deposits (it is recorded only as a withdrawal, or not in
\* this account at all) is rejected with NoTransactionFound and changes
\* neither the snapshot nor any withdrawal.
C28_OnlyDeposits ==
    (/\ last.tx.kind \in {"Dispute", "Resolve", "ChargeBack"}
     /\ last.before.status = "Active"
     /\ last.tx.transaction_id \notin DOMAIN last.before.deposits) =>
        /\ last.raw = "NoTransactionFound"
        /\ account = last.before


\* recv() returns a transaction of its channel to the worker of client c in
\* this step.
Receives(c) == received[c] = NoItem /\ received'[c] # NoItem

\* A suspended send ends only by queueing the pending transaction behind
\* what the channel holds, or with an error when the receiver is gone; and
\* when the live worker of the pending transaction's client takes a
\* transaction off the channel, the channel has room for the pending one at
\* once, before the worker has applied what it took.
SuspendedSendCompletes ==
    pc = "send" =>
        LET c == Route(pending.tx) IN
        /\ pc' # "send" =>
              \/ /\ receiver[c] = "open"
                 /\ Len(inbox[c]) < InboxCapacity
                 /\ inbox' = [inbox EXCEPT ![c] = Append(@, pending)]
                 /\ sent' = [sent EXCEPT ![c] = @ + 1]
                 /\ pc' = "read"
              \/ /\ receiver[c] = "closed"
                 /\ processResult' = Result("InternalError", "none", pending.tx)
                 /\ UNCHANGED <<inbox, sent>>
        /\ pc' = "send" => pending' = pending /\ nread' = nread
        /\ Receives(c) =>
              /\ worker'[c].st = "running"
              /\ received'[c] = inbox[c][1]
              /\ inbox'[c] = Tail(inbox[c])
              /\ Len(inbox'[c]) < InboxCapacity
              /\ receiver'[c] = "open"
              /\ SendOutcome(c)' = "sent"

\* process() is suspended in a send only when the channel of the
\* transaction's client is full and its receiver is open, and the row of
\* that transaction is the last one read.
SendSuspendsOnFull ==
    (pc # "send" /\ pc' = "send") =>
        LET c == Route(pending'.tx) IN
        /\ Len(inbox[c]) = InboxCapacity
        /\ receiver[c] = "open"
        /\ UNCHANGED <<inbox, sent>>
        /\ nread' = nread + 1

\* C29: bounded inbox with backpressure.  No client's channel ever holds more
\* than InboxCapacity transactions; process() is suspended in a send only
\* when the channel of the transaction's client is full, and while suspended
\* it holds the transaction that comes next in the client's dispatch order
\* and reads no further row; once the live worker has consumed a
\* transaction the send can complete, and it completes by queueing the held
\* transaction at the back of the channel.
C29_BoundedInbox ==
    /\ [](\A c \in Clients : Len(inbox[c]) <= InboxCapacity)
    /\ [](pc = "send" =>
            LET c == Route(pending.tx) IN
            /\ pending.seq = sent[c] + 1
            /\ c \in senders_and_handles
            /\ pending.tx.client_id = c)
    /\ [][SendSuspendsOnFull]_vars
    /\ [][SuspendedSendCompletes]_vars

\* C29 witness: process() is suspended in a send to a full channel whose
\* worker is running and has already consumed a transaction, after an
\* earlier send to that channel, once full, had completed.
C29_Witness ==
    /\ pc = "send"
    /\ Len(inbox[Route(pending.tx)]) = InboxCapacity
    /\ worker[Route(pending.tx)].st = "running"
    /\ receiver[Route(pending.tx)] = "open"
    /\ Taken(Route(pending.tx)) >= 1
    /\ sent[Route(pending.tx)] > InboxCapacity


\* The natural number a sequence of decimal digits denotes.
RECURSIVE DigitsValue(_)
DigitsValue(digits) ==
    IF digits = <<>> THEN 0
    ELSE 10 * DigitsValue(SubSeq(digits, 1, Len(digits) - 1)) + digits[Len(digits)]

\* The amount a field rendered with four fractional digits denotes, in
\* units of 1/10000.
Rendered(field) ==
    LET units == DigitsValue(field.int \o field.frac) IN
    IF field.neg THEN 0 - units ELSE units

\* A rendered field has four fractional digits and is a number.
FourFractionalDigits(field) ==
    /\ field.kind = "number"
    /\ field.exp = 0
    /\ Len(field.frac) = 4
    /\ \A i \in 1..4 : field.frac[i] \in 0..9
    /\ field.int # <<>>
    /\ \A i \in 1..Len(field.int) : field.int[i] \in 0..9

\* The rendering of each amount of the serialisation test has four
\* fractional digits and reads back as that amount.
RenderingReadsBack ==
    \A a \in RenderedAmounts :
        FourFractionalDigits(to_str(a)) /\ Rendered(to_str(a)) = a

\* C30: when process() and shutdown() have returned Ok, the summary of every
\* account of the map carries the account's client id, renders available
\* and held as the account holds them, renders as total their sum, each with
\* four fractional digits, and is locked exactly when the account's status
\* is Locked; the accounts no longer change once shutdown() has returned Ok;
\* and the rendering of an amount reads back as that amount.
C30_SummaryRecord ==
    /\ [](SummariesEmitted =>
            /\ DOMAIN summaries = DOMAIN accounts
            /\ \A c \in DOMAIN accounts :
                  LET s == summaries[c] IN
                  /\ s.client_id = c
                  /\ Rendered(s.available) = accounts[c].available
                  /\ Rendered(s.held) = accounts[c].held
                  /\ Rendered(s.total) = Rendered(s.available) + Rendered(s.held)
                  /\ FourFractionalDigits(s.available)
                  /\ FourFractionalDigits(s.held)
                  /\ FourFractionalDigits(s.total)
                  /\ s.locked <=> accounts[c].status = "Locked")
    /\ []RenderingReadsBack
    /\ [][shutdownResult.kind = "Ok" => accounts' = accounts]_vars

\* C30 witness: the summaries are emitted for two accounts, one Locked with
\* nothing left and one Active with held funds and a negative available
\* amount.
C30_Witness ==
    /\ SummariesEmitted
    /\ DOMAIN accounts = {1, 2}
    /\ summaries[1].locked
    /\ ~summaries[2].locked
    /\ accounts[2].held > 0
    /\ summaries[2].available.neg


\* tx is a Deposit whose id is that of a recorded deposit of acct with
\* another amount.
ConflictingDeposit(acct, tx) ==
    /\ tx.kind = "Deposit"
    /\ tx.transaction_id \in DOMAIN acct.deposits
    /\ acct.deposits[tx.transaction_id].amount # tx.amount

\* A conflicting Deposit applied by the worker to an active account changes
\* no account, and the worker ends there by a panic.
ConflictingDepositAborts ==
    \A c \in Clients :
        (/\ Applies(c)
         /\ AccountOf(c).status = "Active"
         /\ ConflictingDeposit(AccountOf(c), Applying(c))) =>
            /\ accounts' = accounts
            /\ worker'[c] = [st |-> "done",
                             result |-> Result("Panic", "none", Applying(c))]
            /\ receiver'[c] = "closed"

\* C31: a Deposit whose id matches a recorded deposit with a different
\* amount, applied to an active account, leaves every account as it was and
\* ends the client's worker by the failed assertion; the account transactor
\* returns the account unchanged for it; and once a worker has ended that
\* way, shutdown() does not return Ok.
C31_ConflictingDeposit ==
    /\ [][ConflictingDepositAborts]_vars
    /\ [](\A c \in Clients :
            EndedWith(c, "Panic") =>
                /\ c \in DOMAIN accounts
                /\ accounts[c].status = "Active"
                /\ ConflictingDeposit(accounts[c], worker[c].result.tx)
                /\ transact(accounts[c], worker[c].result.tx)
                      = Outcome(accounts[c], "Panic")
                /\ shutdownResult.kind \in {"none", "ProcessError", "FailedToShutdown"})

\* C31 witness: a worker has recorded a deposit and ended on its replay with
\* another amount, and shutdown() has returned FailedToShutdown.
C31_Witness ==
    \E c \in Clients :
        /\ EndedWith(c, "Panic")
        /\ Len(applied[c]) = 2
        /\ accounts[c].deposits[1].amount # worker[c].result.tx.amount
        /\ shutdownResult.kind = "FailedToShutdown"


\* The last event was a Dispute of an Accepted deposit, applied to an active
\* account.
DisputedAccepted ==
    /\ last.tx.kind = "Dispute"
    /\ last.before.status = "Active"
    /\ last.tx.transaction_id \in DOMAIN last.before.deposits
    /\ last.before.deposits[last.tx.transaction_id].status = "Accepted"

\* C32: a Dispute of an Accepted deposit on an active account succeeds
\* whatever the available balance: the full amount of the deposit moves from
\* available to held, the deposit becomes Held, available + held and
\* everything else of the account stay as they were.
C32_DisputeOverdraws ==
    DisputedAccepted =>
        LET id == last.tx.transaction_id
            amount == last.before.deposits[id].amount
        IN  /\ last.result = "Ok"
            /\ account = [last.before EXCEPT
                             !.available = @ - amount,
                             !.held = @ + amount,
                             !.deposits[id].status = "Held"]
            /\ account.available + account.held
                  = last.before.available + last.before.held

\* C32 witness: the disputed deposit's funds had been withdrawn, and the
\* dispute has left available negative.
C32_Witness ==
    /\ DisputedAccepted
    /\ last.before.deposits[last.tx.transaction_id].amount > 0
    /\ last.before.available >= 0
    /\ last.before.available < last.before.deposits[last.tx.transaction_id].amount
    /\ last.before.withdrawals # <<>>
    /\ account.available < 0
    /\ account.held > 0


\* C33: ledgers are disjoint by id.  In every reachable account state no
\* transaction id is a key of both the deposits ledger and the withdrawals
\* ledger.
C33_LedgersDisjoint ==
    (DOMAIN account.deposits) \cap (DOMAIN account.withdrawals) = {}


\* C34: recorded amounts are non-negative.  Every deposit and every
\* withdrawal stored in a ledger of the account has amount >= 0, whatever
\* the events were, amounts parsed from negative decimals included.
C34_RecordedAmountsNonNegative ==
    /\ \A id \in DOMAIN account.deposits : account.deposits[id].amount >= 0
    /\ \A id \in DOMAIN account.withdrawals : account.withdrawals[id].amount >= 0


\* The ids of the account's deposits in status Held.
HeldDeposits(acct) ==
    {t \in DOMAIN acct.deposits : acct.deposits[t].status = "Held"}

\* C35 as stated: held equals the disputed funds.  In every account state
\* reachable from the empty active account held is the sum of the amounts of
\* the deposits in status Held.
C35_HeldIsDisputedFunds ==
    account.held = SumAmounts(account.deposits, HeldDeposits(account))


\* The ids of the account's deposits in status ChargedBack.
ChargedBackDeposits(acct) ==
    {t \in DOMAIN acct.deposits : acct.deposits[t].status = "ChargedBack"}

\* C36 as stated: in every account state reachable from the empty active
\* account the status is Locked exactly when some deposit is ChargedBack, and
\* at most one deposit is ChargedBack; every event applied to a Locked
\* account leaves the Held deposits and held as they were.
C36_LockedIffChargedBack ==
    /\ account.status = "Locked" <=> ChargedBackDeposits(account) # {}
    /\ Cardinality(ChargedBackDeposits(account)) <= 1
    /\ last.before.status = "Locked" =>
          /\ HeldDeposits(account) = HeldDeposits(last.before)
          /\ account.held = last.before.held


\* C37: schedule independence.  For the rows read, the value process()
\* returned, the value shutdown() returned and the accounts map at the end
\* once every worker has ended are those of the schedule in which every
\* worker applies a transaction as soon as it is sent, whatever the
\* interleaving of the parser and the workers was.
C37_ScheduleIndependence ==
    (/\ pc = "done"
     /\ shutdownResult.kind # "none"
     /\ \A c \in senders_and_handles : Ended(c)) =>
        LET eager == EagerRun(input.rows) IN
        /\ processResult = eager.processResult
        /\ shutdownResult \in eager.shutdownResults
        /\ accounts = eager.accounts


\* process() returns InternalError in this step.
DispatchFails == processResult.kind = "none" /\ processResult'.kind = "InternalError"

\* The worker of client c ended on an event that was fatally rejected: with
\* an AccountLocked or IncompatibleTransaction error, or by a panic.
EndedFatally(c) ==
    /\ Ended(c)
    /\ \/ worker[c].result.kind = "Panic"
       \/ /\ worker[c].result.kind = "ProcessError"
          /\ worker[c].result.error \in FatalErrors

\* C38: dispatch fails only towards a dead worker.  process() returns
\* InternalError only in a send of an event whose client's worker had
\* already ended; a worker that has ended before shutdown() has begun ended
\* on a fatally rejected event of its client; so while no event has been
\* fatally rejected process() does not return InternalError.
C38_DispatchFailsOnlyToDeadWorker ==
    /\ [][DispatchFails =>
            LET c == processResult'.tx.client_id IN
            /\ c \in senders_and_handles
            /\ Ended(c)
            /\ receiver[c] = "closed"
            /\ UNCHANGED <<inbox, sent, worker, accounts>>]_vars
    /\ [](\A c \in Clients :
            (Ended(c) /\ sd.pc = "idle" /\ shutdownResult.kind = "none") =>
                /\ EndedFatally(c)
                /\ worker[c].result.tx.client_id = c)
    /\ [](processResult.kind = "InternalError" =>
            EndedFatally(processResult.tx.client_id))
    /\ []((\A c \in Clients : ~EndedFatally(c)) =>
            processResult.kind # "InternalError")

\* C38 witness: process() has returned InternalError for an event of a
\* client whose worker had ended with IncompatibleTransaction, before
\* shutdown() began.
C38_Witness ==
    /\ processResult.kind = "InternalError"
    /\ sd.pc = "idle"
    /\ worker[processResult.tx.client_id].result.kind = "ProcessError"
    /\ worker[processResult.tx.client_id].result.error = "IncompatibleTransaction"


\* The worker of client c has ended with an AccountLocked or
\* IncompatibleTransaction error.
StoppedOnFatalError(c) ==
    /\ EndedWith(c, "ProcessError")
    /\ worker[c].result.error \in FatalErrors

\* The step in which a worker applies an event that is rejected with
\* AccountLocked or IncompatibleTransaction changes no account, ends the
\* worker and drops what was queued behind the event; after it no event of
\* the client is applied or queued and the client's account does not change.
StopsForGood ==
    \A c \in Clients :
        /\ (/\ Applies(c)
            /\ Returned(c).kind = "ProcessError"
            /\ Returned(c).error \in FatalErrors) =>
              /\ accounts' = accounts
              /\ Ended(c)'
              /\ inbox'[c] = <<>>
              /\ received'[c] = NoItem
              /\ receiver'[c] = "closed"
        /\ StoppedOnFatalError(c) =>
              /\ ~Applies(c)
              /\ ~Receives(c)
              /\ inbox'[c] = <<>>
              /\ worker'[c] = worker[c]
              /\ spawned'[c] = spawned[c]
              /\ c \in DOMAIN accounts
              /\ accounts'[c] = accounts[c]

\* C39: a worker stops at its first fatal error.  Once a client's worker has
\* applied an event rejected with AccountLocked or IncompatibleTransaction,
\* that event is the last one applied for the client, the events queued
\* behind it are dropped, none is applied later, and the client's account
\* stays as the failing event found it.
C39_WorkerStopsAtFirstFatal ==
    /\ [][StopsForGood]_vars
    /\ [](\A c \in Clients :
            StoppedOnFatalError(c) =>
                /\ applied[c] # <<>>
                /\ applied[c][Len(applied[c])][2] <= sent[c]
                /\ inbox[c] = <<>>
                /\ received[c] = NoItem
                /\ spawned[c] = 1
                /\ transact(accounts[c], worker[c].result.tx)
                      = Outcome(accounts[c], worker[c].result.error))

\* C39 witness: a worker has ended with IncompatibleTransaction on its
\* second event; a third event of the client had been sent and was dropped,
\* and the account is as the first event, a deposit, left it.
C39_Witness ==
    \E c \in Clients :
        /\ StoppedOnFatalError(c)
        /\ worker[c].result.error = "IncompatibleTransaction"
        /\ Len(applied[c]) = 2
        /\ sent[c] = 3
        /\ pc = "done"
        /\ processResult.kind = "Ok"
        /\ accounts[c].status = "Active"
        /\ accounts[c].deposits[1].status = "Accepted"


\* Every amount recorded in the ledgers of acct is non-negative.
NonNegativeLedgers(acct) ==
    /\ \A id \in DOMAIN acct.deposits : acct.deposits[id].amount >= 0
    /\ \A id \in DOMAIN acct.withdrawals : acct.withdrawals[id].amount >= 0

\* The last event took available from >= 0 to < 0.
Overdrew == last.before.available >= 0 /\ account.available < 0

\* C40 as stated: only Dispute can overdraw.  While the events carry
\* non-negative amounts, a Deposit, a Withdrawal, a Resolve or a Chargeback
\* never takes available from >= 0 to < 0: an event that does is a Dispute of
\* a deposit whose funds had been withdrawn.
C40_OnlyDisputeOverdraws ==
    (NonNegativeLedgers(last.before) /\ last.tx.amount >= 0 /\ Overdrew) =>
        /\ last.tx.kind = "Dispute"
        /\ last.tx.transaction_id \in DOMAIN last.before.deposits
        /\ last.before.deposits[last.tx.transaction_id].status = "Accepted"
        /\ last.before.deposits[last.tx.transaction_id].amount > last.before.available
        /\ DOMAIN last.before.withdrawals # {}

====
